---- MODULE Spec2Model ----
(***************************************************************************)
(* kachery-daemon: the content-addressed store (KacheryStorageManager),    *)
(* the per-subfeed signed message list                                     *)
(* (LocalSubfeedSignedMessagesManager), the downloader (loadFile) and the  *)
(* hub coordinator (KacheryHubInterface), as state machines.               *)
(*                                                                         *)
(* Node runs one JavaScript thread: a handler runs from one await          *)
(* to the next without interleaving, so every action below is the code     *)
(* between two suspension points.  File contents are sequences of bytes    *)
(* over a two-letter alphabet; sizes are scaled down (chunkSize).          *)
(***************************************************************************)
EXTENDS Integers, Sequences, FiniteSets, TLC

VARIABLES
    direct,     \* <storageDir>/sha1/../<sha1>      : sha1 -> file
    links,      \* <storageDir>/sha1/../<sha1>.link : sha1 -> link file text
    tmps,       \* temporary files, by (owner, kind) : name -> file
    ext,        \* files outside the storage directory: path -> file
    fired,      \* onFileStored notifications delivered so far: sha1 -> count
    procs,      \* the calls in flight: one record per caller
    ncalls,     \* number of calls issued so far
    log,        \* LocalFeedManager: the signed messages of the subfeed on disk
    mem,        \* #signedMessages: None (null), or Some(the in-memory list)
    calls,      \* addSignedMessages / initializeFromLocal calls in flight
    trash,      \* <storageDir>/sha1-trash/../<sha1> : sha1 -> file
    config,     \* #initialized, and #nodeConfig: None (null) or Some(memberships)
    clients,    \* channels that have a pubsub client
    subscribed, \* pubsub channels the node listens to
    published,  \* messages published so far, in order
    dispatched, \* the messages that came in, each with the callbacks it invoked
    waiter,     \* the requestFileFromChannels call in flight
    fetched,    \* objects asked of the channel bucket so far, in order
    loads       \* the loadFile calls in flight: one record per call

vars == <<direct, links, tmps, ext, fired, procs, ncalls, log, mem, calls,
          trash, config, clients, subscribed, published, dispatched, waiter,
          fetched, loads>>
casVars == <<direct, links, tmps, ext, fired, procs, ncalls>>
feedVars == <<log, mem, calls>>
hubVars == <<config, clients, subscribed, published, dispatched, waiter, fetched>>
loadVars == <<loads>>

----------------------------------------------------------------------------
(* Bounds of the model *)

\* number of concurrent callers of the store
NumProcs == 2
\* calls issued in one behaviour
MaxCalls == 3
\* longest byte sequence streamed or stored
MaxLen == 5

Procs == 1..NumProcs
Bytes == {0, 1}

RECURSIVE SeqsUpTo(_, _)
SeqsUpTo(S, n) ==
    IF n = 0 THEN {<< >>}
    ELSE LET shorter == SeqsUpTo(S, n - 1)
         IN shorter \cup {Append(s, x) : s \in {t \in shorter : Len(t) = n - 1}, x \in S}

Contents == SeqsUpTo(Bytes, MaxLen)

\* longest buffer given to storeFile
MaxStoreLen == 1
StoreContents == SeqsUpTo(Bytes, MaxStoreLen)

\* no hash: a sequence that is no digest
Null == <<-1>>

----------------------------------------------------------------------------
(* crypto.createHash('sha1'): SHA-1 taken as collision free.  The digest    *)
(* state absorbs the bytes one by one; the digest of b1..bn is modelled by  *)
(* the string bn..b1, so that it is injective, computed incrementally, and  *)
(* different from the content it hashes.                                    *)

createHash == << >>

RECURSIVE shasumUpdate(_, _)
shasumUpdate(st, buf) ==
    IF buf = << >> THEN st
    ELSE shasumUpdate(<<Head(buf)>> \o st, Tail(buf))

shasumDigest(st) == st

computeSha1OfBufferSync(buf) == shasumDigest(shasumUpdate(createHash, buf))

----------------------------------------------------------------------------
(* The file system *)

File(data, mode) == [data |-> data, mode |-> mode]

existsDirect(h) == h \in DOMAIN direct
existsTmp(n) == n \in DOMAIN tmps

Put(f, k, v) == [x \in DOMAIN f \cup {k} |-> IF x = k THEN v ELSE f[x]]
Drop(f, k) == [x \in DOMAIN f \ {k} |-> f[x]]

\* fs.constants.S_IRUSR | S_IWUSR | S_IRGRP | S_IROTH
Mode0644 == "0644"
ModeDefault == "default"

\* chunkSize = 20 * 1000 * 1000 in the source, scaled down to 2 bytes
chunkSize == 2

\* manifestData and manifestChunks of storeFileFromStream
NoManifestData == [buffers |-> << >>, byte1 |-> 0, byte2 |-> 0, chunks |-> << >>]

\* linkLocalFile: the path and the declared o.size and o.mtime.  Times are in
\* milliseconds.
NoLinkCall == [path |-> "", size |-> 0, mtime |-> 0]

\* chunkSha1s: the chunks concatenateChunksAndStoreResult has still to verify
\* or to read.
\* path: info.path of moveFileToTrash, {} for null.
\* cancelledAt: whether the consumer cancelled the DataStream of
\* storeFileFromBucketUrl, and if so while the response was still being
\* received ("receiving") or after its end was handled ("complete").
\* the state of one call.  op, pc: the operation and its suspension point;
\* sha1, data: the arguments of storeFile, or the digest a stream computed;
\* src: what the source stream has still to deliver, content: all it was
\* given to deliver, terminal: the terminal event it delivered; late: the
\* events it delivered after that one; wqueue: buffers written to the write stream and not yet
\* on disk, wloc: where the file of the write stream is now
IdleProc ==
    [op |-> "none", pc |-> "idle", sha1 |-> << >>, data |-> << >>,
     expected |-> 0, result |-> "none", raced |-> FALSE,
     fileSize |-> 0, hashOnly |-> FALSE, src |-> << >>, content |-> << >>,
     shasum |-> << >>, complete |-> FALSE, wqueue |-> << >>, wloc |-> "none",
     terminal |-> "none", link |-> NoLinkCall, reason |-> "none",
     md |-> NoManifestData, retSha1 |-> << >>, retManifestSha1 |-> Null,
     chunkSha1s |-> << >>, cancelledAt |-> "none", path |-> {}, late |-> {}]

\* _reportFileStored: every registered callback is called with sha1
timesFired(sha1) == IF sha1 \in DOMAIN fired THEN fired[sha1] ELSE 0
reportFileStored(sha1) == fired' = Put(fired, sha1, timesFired(sha1) + 1)

----------------------------------------------------------------------------
(* renameAndCheck(srcPath, dstPath, expectedSizeBytes), its synchronous     *)
(* part: renameSync, then the first statSync of the loop.  T is the         *)
(* directory of temporary files at the time of the call.                    *)

\* "err": renameSync threw; "ok": the size is as expected, chmod is done and
\* the call returns; "loop": the size differs, the call sleeps in the loop
renameOutcome(T, tmpName, expected) ==
    IF tmpName \notin DOMAIN T THEN "err"
    ELSE IF Len(T[tmpName].data) = expected THEN "ok" ELSE "loop"

\* the content directory after the synchronous part
renameDirect(T, tmpName, sha1, expected) ==
    IF tmpName \notin DOMAIN T THEN direct
    ELSE IF Len(T[tmpName].data) = expected
         THEN Put(direct, sha1, File(T[tmpName].data, Mode0644))
         ELSE Put(direct, sha1, T[tmpName])

renameTmps(T, tmpName) == IF tmpName \in DOMAIN T THEN Drop(T, tmpName) ELSE T

pcAfterRename(outcome) ==
    CASE outcome = "ok" -> "renamed"
      [] outcome = "loop" -> "statloop"
      [] OTHER -> "renamefailed"

\* one more turn of the stat loop: the size is now as expected (chmod, return),
\* or statSync throws because the file is gone
RenameCheckPoll(p) ==
    /\ procs[p].pc = "statloop"
    /\ LET me == procs[p]
       IN IF ~existsDirect(me.sha1)
          THEN /\ procs' = [procs EXCEPT ![p].pc = "renamefailed"]
               /\ UNCHANGED direct
          ELSE /\ Len(direct[me.sha1].data) = me.expected
               /\ direct' = [direct EXCEPT ![me.sha1].mode = Mode0644]
               /\ procs' = [procs EXCEPT ![p].pc = "renamed"]
    /\ UNCHANGED <<links, tmps, ext, fired, ncalls>>
    /\ UNCHANGED <<feedVars, trash, hubVars, loadVars>>

\* timeoutMsec = 10 s have passed and the size is still not the expected one.
\* Queued writes are taken to reach the disk within that time, so the loop
\* gives up only on a file that has all its bytes and the wrong size.
RenameCheckTimeout(p) ==
    /\ procs[p].pc = "statloop"
    /\ procs[p].wqueue = << >>
    /\ existsDirect(procs[p].sha1)
    /\ Len(direct[procs[p].sha1].data) # procs[p].expected
    /\ procs' = [procs EXCEPT ![p].pc = "renamefailed"]
    /\ UNCHANGED <<direct, links, tmps, ext, fired, ncalls>>
    /\ UNCHANGED <<feedVars, trash, hubVars, loadVars>>

----------------------------------------------------------------------------
(* findFile(fileKey).  A value that may be null is a set: {} or {value}.    *)

None == {}
Some(x) == {x}
The(s) == CHOOSE x \in s : TRUE

directPath(h) == <<"sha1", h>>

\* _getLocalFileInfo1: stat of the content path
getLocalFileInfo1(h) ==
    IF existsDirect(h)
    THEN [path |-> Some(directPath(h)), size |-> Some(Len(direct[h].data))]
    ELSE [path |-> None, size |-> None]

\* _getLocalFileInfo2: the link file, parsed and validated, then stat of the
\* file it names
getLocalFileInfo2(h) ==
    IF h \in DOMAIN links
    THEN LET x == links[h]
         IN IF x.json # "link" THEN [path |-> None, size |-> None]
            ELSE IF x.path \notin DOMAIN ext THEN [path |-> None, size |-> None]
            ELSE [path |-> Some(x.path), size |-> Some(Len(ext[x.path].data))]
    ELSE [path |-> None, size |-> None]

\* reports a link whose file is gone, with no size
getLocalFileInfoStale(h) ==
    IF getLocalFileInfo1(h).path # None THEN getLocalFileInfo1(h)
    ELSE IF h \in DOMAIN links /\ links[h].json = "link"
         THEN [path |-> Some(links[h].path), size |-> getLocalFileInfo2(h).size]
         ELSE [path |-> None, size |-> None]

getLocalFileInfo(h) ==
    IF getLocalFileInfo1(h).path # None THEN getLocalFileInfo1(h)
    ELSE IF getLocalFileInfo2(h).path # None THEN getLocalFileInfo2(h)
    ELSE [path |-> None, size |-> None]

NotFound == [found |-> FALSE, size |-> 0, localFilePath |-> None]

\* the chunkOf branch
findChunkOf(fileKey) ==
    IF fileKey.chunkOf # None
    THEN LET c == The(fileKey.chunkOf)
             info == getLocalFileInfo(The(c.fileKey.sha1))
         IN IF info.path # None
            THEN [found |-> TRUE, size |-> c.endByte - c.startByte,
                  localFilePath |-> None]
            ELSE NotFound
    ELSE NotFound

findFile(fileKey) ==
    LET info == IF fileKey.sha1 # None THEN getLocalFileInfo(The(fileKey.sha1))
                ELSE [path |-> None, size |-> None]
    IN IF fileKey.sha1 # None /\ info.path # None /\ info.size # None
       THEN [found |-> TRUE, size |-> The(info.size), localFilePath |-> info.path]
       ELSE findChunkOf(fileKey)

\* hasLocalFile(fileKey)
hasLocalFile(fileKey) ==
    \/ /\ fileKey.sha1 # None
       /\ getLocalFileInfo(The(fileKey.sha1)).path # None
       /\ getLocalFileInfo(The(fileKey.sha1)).size # None
    \/ /\ fileKey.chunkOf # None
       /\ getLocalFileInfo(The(The(fileKey.chunkOf).fileKey.sha1)).path # None

Sha1Key(h) == [sha1 |-> Some(h), chunkOf |-> None]
ChunkOfKey(H, a, b) ==
    [sha1 |-> None,
     chunkOf |-> Some([fileKey |-> Sha1Key(H), startByte |-> a, endByte |-> b])]

----------------------------------------------------------------------------
(* storeFile(sha1, data) *)

storeTmp(p) == <<p, "store">>

\* the synchronous part of storeFile, up to await fs.promises.writeFile:
\* the state of the call and the temporary files after it
storeFileStarted(sha1, data) ==
    IF existsDirect(sha1)
    THEN [IdleProc EXCEPT !.op = "storeFile", !.pc = "done", !.sha1 = sha1,
                          !.data = data, !.result = "ok"]
    ELSE [IdleProc EXCEPT !.op = "storeFile", !.pc = "writing", !.sha1 = sha1,
                          !.data = data]

storeFileTmps(T, p, sha1) ==
    IF existsDirect(sha1) THEN T ELSE Put(T, storeTmp(p), File(<< >>, ModeDefault))

StoreFileCall(p, sha1, data) ==
    /\ procs[p].pc = "idle"
    /\ ncalls < MaxCalls
    /\ ncalls' = ncalls + 1
    /\ procs' = [procs EXCEPT ![p] = storeFileStarted(sha1, data)]
    /\ tmps' = storeFileTmps(tmps, p, sha1)
    /\ UNCHANGED <<direct, links, ext, fired>>
    /\ UNCHANGED <<feedVars, trash, hubVars, loadVars>>

\* forgets to unlink the temporary file
storeFileDropTmpKeeps(p) ==
    /\ tmps' = Put(tmps, storeTmp(p), File(procs[p].data, ModeDefault))
    /\ procs' = [procs EXCEPT ![p].pc = "done", ![p].result = "ok", ![p].raced = TRUE]
    /\ UNCHANGED direct

\* the second existsSync: the file was installed while this call was writing
storeFileDropTmp(p) ==
    /\ tmps' = Drop(tmps, storeTmp(p))
    /\ procs' = [procs EXCEPT ![p].pc = "done", ![p].result = "ok", ![p].raced = TRUE]
    /\ UNCHANGED direct

\* writeFile has completed: the second existsSync, then renameAndCheck up to
\* its first await or its return
StoreFileWritten(p) ==
    /\ procs[p].op = "storeFile"
    /\ procs[p].pc = "writing"
    /\ LET me == procs[p]
           written == Put(tmps, storeTmp(p), File(me.data, ModeDefault))
           outcome == renameOutcome(written, storeTmp(p), Len(me.data))
       IN IF existsDirect(me.sha1)
          THEN storeFileDropTmp(p)
          ELSE /\ direct' = renameDirect(written, storeTmp(p), me.sha1, Len(me.data))
               /\ tmps' = renameTmps(written, storeTmp(p))
               /\ procs' = [procs EXCEPT ![p].pc = pcAfterRename(outcome),
                                         ![p].expected = Len(me.data)]
    /\ UNCHANGED <<links, ext, fired, ncalls>>
    /\ UNCHANGED <<feedVars, trash, hubVars, loadVars>>

\* after await renameAndCheck: _reportFileStored(sha1)
StoreFileReport(p) ==
    /\ procs[p].op = "storeFile"
    /\ procs[p].pc = "renamed"
    /\ reportFileStored(procs[p].sha1)
    /\ procs' = [procs EXCEPT ![p].pc = "done", ![p].result = "ok"]
    /\ UNCHANGED <<direct, links, tmps, ext, ncalls>>
    /\ UNCHANGED <<feedVars, trash, hubVars, loadVars>>

\* renameAndCheck threw: storeFile rejects
StoreFileFailed(p) ==
    /\ procs[p].op = "storeFile"
    /\ procs[p].pc = "renamefailed"
    /\ procs' = [procs EXCEPT ![p].pc = "done", ![p].result = "error"]
    /\ UNCHANGED <<direct, links, tmps, ext, fired, ncalls>>
    /\ UNCHANGED <<feedVars, trash, hubVars, loadVars>>

\* the caller has its result and may call again
Return(p) ==
    /\ procs[p].pc = "done"
    /\ ncalls < MaxCalls
    /\ procs' = [procs EXCEPT ![p] = IdleProc]
    /\ UNCHANGED <<direct, links, tmps, ext, fired, ncalls>>
    /\ UNCHANGED <<feedVars, trash, hubVars, loadVars>>

----------------------------------------------------------------------------
(* storeFileFromStream(ds, fileSize, {calculateHashOnly}) *)

streamTmp(p) == <<p, "stream">>

Min(a, b) == IF a < b THEN a ELSE b

RECURSIVE concat(_)
concat(buffers) ==
    IF buffers = << >> THEN << >> ELSE Head(buffers) \o concat(Tail(buffers))

\* the for loop of _updateManifestChunks over d = Buffer.concat(buffers),
\* from offset i on
RECURSIVE sliceLoop(_, _, _, _)
sliceLoop(md, d, i, final) ==
    IF ~(i < Len(d)) THEN md
    ELSE LET x == SubSeq(d, i + 1, i + Min(chunkSize, Len(d) - i))
         IN IF Len(x) = chunkSize \/ final
            THEN sliceLoop(
                     [md EXCEPT !.chunks = Append(@, [start |-> md.byte1,
                                                      end |-> md.byte1 + Len(x),
                                                      sha1 |-> computeSha1OfBufferSync(x)]),
                                !.byte1 = @ + Len(x)],
                     d, i + chunkSize, final)
            ELSE sliceLoop([md EXCEPT !.buffers = Append(@, x)], d, i + chunkSize, final)

\* cuts whenever called with data, dropping the test on the window size
updateManifestChunksEager(md, final) ==
    IF md.byte2 > md.byte1
    THEN sliceLoop([md EXCEPT !.buffers = << >>], concat(md.buffers), 0, TRUE)
    ELSE md

updateManifestChunks(md, final) ==
    IF (md.byte2 - md.byte1 >= chunkSize) \/ (final /\ md.byte2 > md.byte1)
    THEN sliceLoop([md EXCEPT !.buffers = << >>], concat(md.buffers), 0, final)
    ELSE md

\* ds.onData, the manifest part: push the buffer, count it, cut the chunks
manifestOnData(md, buf) ==
    updateManifestChunks(
        [md EXCEPT !.buffers = Append(@, buf), !.byte2 = @ + Len(buf)], FALSE)

\* JSON.stringify(manifest) as a text over the numbers: 2 stands for a
\* bracket, so that no manifest text is a byte sequence of Contents
RECURSIVE chunksJson(_)
chunksJson(chunks) ==
    IF chunks = << >> THEN << >>
    ELSE <<2, Head(chunks).start, Head(chunks).end>> \o Head(chunks).sha1
             \o chunksJson(Tail(chunks))

manifestJson(manifest) ==
    <<2, manifest.size>> \o manifest.sha1 \o chunksJson(manifest.chunks) \o <<2>>

\* the call: createWriteStream on the temporary file unless calculateHashOnly,
\* createHash, and the handlers registered on ds, which will deliver B
streamStarted(op, B, fileSize, hashOnly) ==
    [IdleProc EXCEPT !.op = op, !.pc = "streaming", !.fileSize = fileSize,
                     !.hashOnly = hashOnly, !.src = B, !.content = B,
                     !.shasum = createHash,
                     !.wloc = IF hashOnly THEN "none" ELSE "tmp"]

StreamCall(p, B, fileSize, hashOnly) ==
    /\ procs[p].pc = "idle"
    /\ ncalls < MaxCalls
    /\ ncalls' = ncalls + 1
    /\ procs' = [procs EXCEPT ![p] = streamStarted("stream", B, fileSize, hashOnly)]
    /\ tmps' = IF hashOnly THEN tmps ELSE Put(tmps, streamTmp(p), File(<< >>, ModeDefault))
    /\ UNCHANGED <<direct, links, ext, fired>>
    /\ UNCHANGED <<feedVars, trash, hubVars, loadVars>>

\* does not feed the digest with a buffer that completes a chunk
onDataSkipsHash(me, buf) ==
    [me EXCEPT !.src = SubSeq(@, Len(buf) + 1, Len(@)),
               !.shasum = IF me.md.byte2 + Len(buf) - me.md.byte1 >= chunkSize
                          THEN @ ELSE shasumUpdate(@, buf),
               !.wqueue = IF me.wloc = "none" THEN @ ELSE Append(@, buf),
               !.md = manifestOnData(@, buf)]

\* ds.onData(buf): the state of the call after the handler
onData(me, buf) ==
    [me EXCEPT !.src = SubSeq(@, Len(buf) + 1, Len(@)),
               !.shasum = shasumUpdate(@, buf),
               !.wqueue = IF me.wloc = "none" THEN @ ELSE Append(@, buf),
               !.md = manifestOnData(@, buf)]

\* the source delivers its next n bytes
StreamData(p, n) ==
    /\ procs[p].pc = "streaming"
    /\ n <= Len(procs[p].src)
    /\ procs' = [procs EXCEPT ![p] =
           IF procs[p].complete THEN [@ EXCEPT !.src = SubSeq(@, n + 1, Len(@))]
           ELSE onData(@, SubSeq(procs[p].src, 1, n))]
    /\ UNCHANGED <<direct, links, tmps, ext, fired, ncalls>>
    /\ UNCHANGED <<feedVars, trash, hubVars, loadVars>>

\* the write stream performs its oldest queued write, on the file it has
\* open: at the temporary path, at the content path after the rename, or
\* nowhere any more after an unlink
StreamFlush(p) ==
    /\ procs[p].wqueue # << >>
    /\ LET me == procs[p]
           buf == Head(me.wqueue)
       IN /\ procs' = [procs EXCEPT ![p].wqueue = Tail(@)]
          /\ tmps' = IF me.wloc = "tmp" /\ existsTmp(streamTmp(p))
                     THEN [tmps EXCEPT ![streamTmp(p)].data = @ \o buf]
                     ELSE tmps
          /\ direct' = IF me.wloc = "dest" /\ existsDirect(me.sha1)
                       THEN [direct EXCEPT ![me.sha1].data = @ \o buf]
                       ELSE direct
    /\ UNCHANGED <<links, ext, fired, ncalls>>
    /\ UNCHANGED <<feedVars, trash, hubVars, loadVars>>

\* leaves the temporary file where it is
cleanupTmpsKeeps(T, p) == T

\* _cleanup: unlinkSync(tmpDestPath), errors ignored
cleanupTmps(T, p) == IF streamTmp(p) \in DOMAIN T THEN Drop(T, streamTmp(p)) ELSE T
cleanupLoc(me, p) == IF me.wloc = "tmp" THEN "unlinked" ELSE me.wloc

\* the manifest of nextStep, after _updateManifestChunks({final: true})
finalManifest(me) ==
    LET md == updateManifestChunks(me.md, TRUE)
    IN [size |-> md.byte2, sha1 |-> me.sha1, chunks |-> md.chunks]

\* resolves with a manifestSha1 for a single chunk too
manifestSha1Always(manifest) ==
    IF Len(manifest.chunks) >= 1
    THEN computeSha1OfBufferSync(manifestJson(manifest))
    ELSE Null

\* the manifestSha1 that nextStep resolves with
manifestSha1Of(manifest) ==
    IF Len(manifest.chunks) > 1
    THEN computeSha1OfBufferSync(manifestJson(manifest))
    ELSE Null

\* the caller that runs the un-awaited storeFile(manifestSha1, manifestJson)
\* of the call p
manifestStorer(p) == p + NumProcs

\* nextStep, for the call in state `me`: the last chunks, the manifest and its
\* un-awaited storeFile, _cleanup, resolve, _reportFileStored
nextStep(p, me) ==
    LET manifest == finalManifest(me)
        msha1 == manifestSha1Of(manifest)
        q == manifestStorer(p)
        T == IF msha1 = Null THEN tmps ELSE storeFileTmps(tmps, q, msha1)
    IN /\ procs' = [procs EXCEPT
              ![p] = [me EXCEPT !.pc = IF me.op = "link" THEN "linkresume" ELSE "done",
                                !.result = IF me.op = "link" THEN @ ELSE "resolved",
                                !.md = updateManifestChunks(me.md, TRUE),
                                !.retSha1 = me.sha1, !.retManifestSha1 = msha1,
                                !.wloc = cleanupLoc(me, p)],
              ![q] = IF msha1 = Null THEN @
                     ELSE storeFileStarted(msha1, manifestJson(manifest))]
       /\ tmps' = cleanupTmps(T, p)
       /\ reportFileStored(me.sha1)

\* reject after _cleanup
rejectStream(p, me) ==
    /\ procs' = [procs EXCEPT ![p] = [me EXCEPT !.pc = "done", !.result = "rejected",
                                               !.reason = "stream",
                                               !.wloc = cleanupLoc(me, p)]]
    /\ tmps' = cleanupTmps(tmps, p)
    /\ UNCHANGED fired

\* ds.onFinished: the digest, then either nextStep at once (the file is
\* already there, or calculateHashOnly) or renameAndCheck up to its first await
StreamFinished(p) ==
    /\ procs[p].pc = "streaming"
    /\ procs[p].src = << >>
    /\ ~procs[p].complete
    /\ procs[manifestStorer(p)].pc = "idle"
    /\ LET sha1Computed == shasumDigest(procs[p].shasum)
           me == [procs[p] EXCEPT !.complete = TRUE, !.sha1 = sha1Computed,
                                  !.expected = procs[p].fileSize,
                                  !.terminal = "finished"]
           outcome == renameOutcome(tmps, streamTmp(p), me.fileSize)
       IN IF me.hashOnly \/ existsDirect(sha1Computed)
          THEN /\ nextStep(p, me)
               /\ UNCHANGED direct
          ELSE /\ direct' = renameDirect(tmps, streamTmp(p), sha1Computed, me.fileSize)
               /\ tmps' = renameTmps(tmps, streamTmp(p))
               /\ procs' = [procs EXCEPT ![p] =
                      [me EXCEPT !.pc = pcAfterRename(outcome),
                                 !.wloc = IF outcome = "err" THEN @ ELSE "dest"]]
               /\ UNCHANGED fired
    /\ UNCHANGED <<links, ext, ncalls>>
    /\ UNCHANGED <<feedVars, trash, hubVars, loadVars>>

\* renameAndCheck(...).then(nextStep)
StreamNextStep(p) ==
    /\ procs[p].op \in {"stream", "link"}
    /\ procs[p].pc = "renamed"
    /\ nextStep(p, procs[p])
    /\ UNCHANGED <<direct, links, ext, ncalls>>
    /\ UNCHANGED <<feedVars, trash, hubVars, loadVars>>

\* renameAndCheck(...).catch: _cleanup, reject(err3)
StreamRenameFailed(p) ==
    /\ procs[p].op \in {"stream", "link"}
    /\ procs[p].pc = "renamefailed"
    /\ rejectStream(p, procs[p])
    /\ UNCHANGED <<direct, links, ext, ncalls>>
    /\ UNCHANGED <<feedVars, trash, hubVars, loadVars>>

\* another process that shares the storage directory completes its install
\* of the content this call is streaming (shared-resource policy: writing to
\* a temporary file, then renaming it onto the final name)
OtherProcessInstalls(p) ==
    /\ procs[p].pc = "streaming"
    /\ LET h == computeSha1OfBufferSync(procs[p].content)
       IN /\ ~existsDirect(h)
          /\ direct' = Put(direct, h, File(procs[p].content, Mode0644))
    /\ UNCHANGED <<links, tmps, ext, fired, procs, ncalls>>
    /\ UNCHANGED <<feedVars, trash, hubVars, loadVars>>

\* ds.onError: _cleanup, reject(err)
StreamError(p) ==
    /\ procs[p].pc = "streaming"
    /\ ~procs[p].complete
    /\ rejectStream(p, [procs[p] EXCEPT !.complete = TRUE, !.terminal = "error"])
    /\ UNCHANGED <<direct, links, ext, ncalls>>
    /\ UNCHANGED <<feedVars, trash, hubVars, loadVars>>

----------------------------------------------------------------------------
(* storeFileFromBucketUrl(url, {sha1}), from the moment axios.get answers.  *)
(* B is what the bucket serves, size its Content-Length.                    *)

\* the response has arrived: the write stream is opened on the temporary
\* file and the DataStream is returned
bucketStarted(p, sha1, B, size) ==
    /\ procs[p].pc = "idle"
    /\ ncalls < MaxCalls
    /\ ncalls' = ncalls + 1
    /\ procs' = [procs EXCEPT ![p] =
           [IdleProc EXCEPT !.op = "bucket", !.pc = "streaming", !.sha1 = sha1,
                            !.fileSize = size, !.src = B, !.content = B,
                            !.shasum = createHash, !.wloc = "tmp"]]
    /\ tmps' = Put(tmps, streamTmp(p), File(<< >>, ModeDefault))
    /\ UNCHANGED <<direct, links, ext, fired>>

BucketCall(p, sha1, B, size) ==
    /\ bucketStarted(p, sha1, B, size)
    /\ UNCHANGED <<feedVars, trash, hubVars, loadVars>>

\* stream.on('data'): nothing but the statistics once complete
bucketOnData(me, buf) ==
    IF me.complete THEN [me EXCEPT !.src = SubSeq(@, Len(buf) + 1, Len(@))]
    ELSE [me EXCEPT !.src = SubSeq(@, Len(buf) + 1, Len(@)),
                    !.shasum = shasumUpdate(@, buf),
                    !.wqueue = Append(@, buf)]

BucketData(p, n) ==
    /\ procs[p].op = "bucket"
    /\ procs[p].pc = "streaming"
    /\ n <= Len(procs[p].src)
    /\ procs' = [procs EXCEPT ![p] = bucketOnData(@, SubSeq(procs[p].src, 1, n))]
    /\ UNCHANGED <<direct, links, tmps, ext, fired, ncalls>>
    /\ UNCHANGED <<feedVars, trash, hubVars, loadVars>>

\* _reportError: _cleanup, ret.producer().error(err)
bucketReportError(p, me, why) ==
    /\ procs' = [procs EXCEPT ![p] = [me EXCEPT !.pc = "done", !.terminal = "error",
                                               !.reason = why,
                                               !.wloc = cleanupLoc(me, p)]]
    /\ tmps' = cleanupTmps(tmps, p)
    /\ UNCHANGED fired

\* _reportDone: _cleanup, ret.producer().end(), _reportFileStored(o.sha1)
bucketReportDone(p, me) ==
    /\ procs' = [procs EXCEPT ![p] = [me EXCEPT !.pc = "done", !.terminal = "end",
                                               !.wloc = cleanupLoc(me, p)]]
    /\ tmps' = cleanupTmps(tmps, p)
    /\ reportFileStored(me.sha1)

\* takes whatever was downloaded for the expected content
bucketHashOkAlways(sha1Computed, expected) == TRUE

\* s !== o.sha1
bucketHashOk(sha1Computed, expected) == sha1Computed = expected

\* stream.on('end')
BucketEnd(p) ==
    /\ procs[p].op = "bucket"
    /\ procs[p].pc = "streaming"
    /\ procs[p].src = << >>
    /\ ~procs[p].complete
    /\ LET me == [procs[p] EXCEPT !.complete = TRUE, !.expected = procs[p].fileSize]
           s == shasumDigest(me.shasum)
           outcome == renameOutcome(tmps, streamTmp(p), me.fileSize)
       IN IF ~bucketHashOk(s, me.sha1)
          THEN /\ bucketReportError(p, me, "hash")
               /\ UNCHANGED direct
          ELSE IF existsDirect(me.sha1)
          THEN /\ bucketReportDone(p, me)
               /\ UNCHANGED direct
          ELSE /\ direct' = renameDirect(tmps, streamTmp(p), me.sha1, me.fileSize)
               /\ tmps' = renameTmps(tmps, streamTmp(p))
               /\ procs' = [procs EXCEPT ![p] =
                      [me EXCEPT !.pc = pcAfterRename(outcome),
                                 !.wloc = IF outcome = "err" THEN @ ELSE "dest"]]
               /\ UNCHANGED fired
    /\ UNCHANGED <<links, ext, ncalls>>
    /\ UNCHANGED <<feedVars, trash, hubVars, loadVars>>

\* renameAndCheck(...).then(_reportDone)
BucketRenamed(p) ==
    /\ procs[p].op = "bucket"
    /\ procs[p].pc = "renamed"
    /\ bucketReportDone(p, procs[p])
    /\ UNCHANGED <<direct, links, ext, ncalls>>
    /\ UNCHANGED <<feedVars, trash, hubVars, loadVars>>

\* renameAndCheck(...).catch: _reportError(err3)
BucketRenameFailed(p) ==
    /\ procs[p].op = "bucket"
    /\ procs[p].pc = "renamefailed"
    /\ bucketReportError(p, procs[p], "rename")
    /\ UNCHANGED <<direct, links, ext, ncalls>>
    /\ UNCHANGED <<feedVars, trash, hubVars, loadVars>>

\* stream.on('error')
BucketError(p) ==
    /\ procs[p].op = "bucket"
    /\ procs[p].pc = "streaming"
    /\ ~procs[p].complete
    /\ bucketReportError(p, [procs[p] EXCEPT !.complete = TRUE], "stream")
    /\ UNCHANGED <<direct, links, ext, ncalls>>
    /\ UNCHANGED <<feedVars, trash, hubVars, loadVars>>

\* socket.on('close')
BucketSocketClose(p) ==
    /\ procs[p].op = "bucket"
    /\ procs[p].pc = "streaming"
    /\ ~procs[p].complete
    /\ bucketReportError(p, [procs[p] EXCEPT !.complete = TRUE], "socket")
    /\ UNCHANGED <<direct, links, ext, ncalls>>
    /\ UNCHANGED <<feedVars, trash, hubVars, loadVars>>

\* leaves the request alone
onCancelledIgnores(me) == me

\* ret.producer().onCancelled: nothing once complete, else req.destroy().  A
\* destroyed request delivers no more data and no end; its socket closes.
onCancelled(me) == IF me.complete THEN me ELSE [me EXCEPT !.pc = "destroyed"]

\* the consumer cancels the DataStream that has had no terminal event yet
BucketCancel(p) ==
    /\ procs[p].op = "bucket"
    /\ procs[p].terminal = "none"
    /\ procs[p].cancelledAt = "none"
    /\ procs' = [procs EXCEPT ![p] =
           [onCancelled(procs[p]) EXCEPT
               !.cancelledAt = IF procs[p].complete THEN "complete" ELSE "receiving"]]
    /\ UNCHANGED <<direct, links, tmps, ext, fired, ncalls>>
    /\ UNCHANGED <<feedVars, trash, hubVars, loadVars>>

\* socket.on('close') of the destroyed request
BucketDestroyedClose(p) ==
    /\ procs[p].op = "bucket"
    /\ procs[p].pc = "destroyed"
    /\ ~procs[p].complete
    /\ bucketReportError(p, [procs[p] EXCEPT !.complete = TRUE], "socket")
    /\ UNCHANGED <<direct, links, ext, ncalls>>
    /\ UNCHANGED <<feedVars, trash, hubVars, loadVars>>

----------------------------------------------------------------------------
(* concatenateChunksAndStoreResult(sha1, chunkSha1s) *)

concatTmp(p) == <<p, "concat">>

\* createTemporaryFilePath, fs.createWriteStream, crypto.createHash: the call
\* goes on to read the chunks, or to writeStream.end if there is none
concatOpened(me, chunkSha1s) ==
    [me EXCEPT !.pc = IF chunkSha1s = << >> THEN "ending" ELSE "reading",
               !.chunkSha1s = chunkSha1s, !.shasum = createHash,
               !.expected = 0, !.wloc = "tmp"]

\* throw Error(...)
concatRejected(me, why) ==
    [me EXCEPT !.pc = "done", !.result = "rejected", !.reason = why]

\* the first existsSync, and the call up to its first await
ConcatCall(p, sha1, chunkSha1s) ==
    /\ procs[p].pc = "idle"
    /\ LET me == [IdleProc EXCEPT !.op = "concat", !.sha1 = sha1, !.data = chunkSha1s]
       IN IF existsDirect(sha1)
          THEN /\ procs' = [procs EXCEPT ![p] = [me EXCEPT !.pc = "done", !.result = "ok"]]
               /\ UNCHANGED tmps
          ELSE IF chunkSha1s = << >>
          THEN /\ procs' = [procs EXCEPT ![p] = concatOpened(me, << >>)]
               /\ tmps' = Put(tmps, concatTmp(p), File(<< >>, ModeDefault))
          ELSE /\ procs' = [procs EXCEPT ![p] =
                      [me EXCEPT !.pc = "verifying", !.chunkSha1s = chunkSha1s]]
               /\ UNCHANGED tmps
    /\ UNCHANGED <<direct, links, ext, fired, ncalls>>
    /\ UNCHANGED <<feedVars, trash, hubVars, loadVars>>

\* "verify we have all the files": findFile has answered for one chunk
ConcatVerify(p) ==
    /\ procs[p].op = "concat"
    /\ procs[p].pc = "verifying"
    /\ LET me == procs[p]
           rest == Tail(me.chunkSha1s)
       IN IF ~findFile(Sha1Key(Head(me.chunkSha1s))).found
          THEN /\ procs' = [procs EXCEPT ![p] = concatRejected(me, "missing")]
               /\ UNCHANGED tmps
          ELSE IF rest # << >>
          THEN /\ procs' = [procs EXCEPT ![p].chunkSha1s = rest]
               /\ UNCHANGED tmps
          ELSE /\ procs' = [procs EXCEPT ![p] = concatOpened(me, me.data)]
               /\ tmps' = Put(tmps, concatTmp(p), File(<< >>, ModeDefault))
    /\ UNCHANGED <<direct, links, ext, fired, ncalls>>
    /\ UNCHANGED <<feedVars, trash, hubVars, loadVars>>

\* one turn of the read loop: getFileDataStreamy, then the buffers of the
\* chunk go to the hash and to the write stream until onFinished
ConcatRead(p) ==
    /\ procs[p].op = "concat"
    /\ procs[p].pc = "reading"
    /\ LET me == procs[p]
           h == Head(me.chunkSha1s)
           rest == Tail(me.chunkSha1s)
           buf == direct[h].data
       IN IF ~existsDirect(h)
          THEN /\ procs' = [procs EXCEPT ![p] = concatRejected(me, "read")]
               /\ UNCHANGED tmps
          ELSE /\ procs' = [procs EXCEPT ![p] =
                      [me EXCEPT !.pc = IF rest = << >> THEN "ending" ELSE "reading",
                                 !.chunkSha1s = rest,
                                 !.expected = @ + Len(buf),
                                 !.content = @ \o buf,
                                 !.shasum = shasumUpdate(@, buf)]]
               /\ tmps' = Put(tmps, concatTmp(p),
                              File(tmps[concatTmp(p)].data \o buf, ModeDefault))
    /\ UNCHANGED <<direct, links, ext, fired, ncalls>>
    /\ UNCHANGED <<feedVars, trash, hubVars, loadVars>>

\* sha1Computed !== sha1
concatHashOk(sha1Computed, sha1) == sha1Computed = sha1

\* the callback of writeStream.end, and what follows the await: the second
\* existsSync, mkdirSync, renameAndCheck up to its first await or its return
ConcatEnd(p) ==
    /\ procs[p].op = "concat"
    /\ procs[p].pc = "ending"
    /\ LET me == procs[p]
           sha1Computed == shasumDigest(me.shasum)
           outcome == renameOutcome(tmps, concatTmp(p), me.expected)
       IN IF ~concatHashOk(sha1Computed, me.sha1)
          THEN /\ procs' = [procs EXCEPT ![p] = concatRejected(me, "hash")]
               /\ UNCHANGED <<direct, tmps>>
          ELSE IF existsDirect(me.sha1)
          THEN /\ tmps' = Drop(tmps, concatTmp(p))
               /\ procs' = [procs EXCEPT ![p] =
                      [me EXCEPT !.pc = "done", !.result = "ok", !.raced = TRUE,
                                 !.wloc = "unlinked"]]
               /\ UNCHANGED direct
          ELSE /\ direct' = renameDirect(tmps, concatTmp(p), me.sha1, me.expected)
               /\ tmps' = renameTmps(tmps, concatTmp(p))
               /\ procs' = [procs EXCEPT ![p] =
                      [me EXCEPT !.pc = pcAfterRename(outcome), !.wloc = "dest"]]
    /\ UNCHANGED <<links, ext, fired, ncalls>>
    /\ UNCHANGED <<feedVars, trash, hubVars, loadVars>>

\* renameAndCheck has returned: _reportFileStored(sha1)
ConcatReport(p) ==
    /\ procs[p].op = "concat"
    /\ procs[p].pc = "renamed"
    /\ procs' = [procs EXCEPT ![p].pc = "done", ![p].result = "ok"]
    /\ reportFileStored(procs[p].sha1)
    /\ UNCHANGED <<direct, links, tmps, ext, ncalls>>
    /\ UNCHANGED <<feedVars, trash, hubVars, loadVars>>

----------------------------------------------------------------------------
(* moveFileToTrash(sha1) *)

\* leaves the source where it is
trashUnlinkKeeps(D, h) == D

\* fs.promises.unlink(info.path) of a file at a content path
trashUnlink(D, h) == Drop(D, h)

\* moveFileToTrash up to await _getLocalFileInfo
TrashCall(p, sha1) ==
    /\ procs[p].pc = "idle"
    /\ procs' = [procs EXCEPT ![p] =
           [IdleProc EXCEPT !.op = "trash", !.pc = "stat", !.sha1 = sha1]]
    /\ UNCHANGED <<direct, links, tmps, ext, fired, ncalls>>
    /\ UNCHANGED <<feedVars, trash, hubVars, loadVars>>

\* _getLocalFileInfo has answered: return if there is no path, else
\* existsSync(destPath) and the call up to await unlink or await rename
TrashStat(p) ==
    /\ procs[p].op = "trash"
    /\ procs[p].pc = "stat"
    /\ LET info == getLocalFileInfo(procs[p].sha1)
       IN procs' = [procs EXCEPT ![p] =
              IF info.path = None
              THEN [@ EXCEPT !.pc = "done", !.result = "ok"]
              ELSE [@ EXCEPT !.path = info.path,
                             !.pc = IF procs[p].sha1 \in DOMAIN trash
                                    THEN "unlinking" ELSE "renaming"]]
    /\ UNCHANGED <<direct, links, tmps, ext, fired, ncalls>>
    /\ UNCHANGED <<feedVars, trash, hubVars, loadVars>>

\* the file at info.path: Some(it), or None if nothing is there any more
trashSource(p) ==
    LET path == The(procs[p].path)
    IN IF path = directPath(procs[p].sha1)
       THEN (IF existsDirect(procs[p].sha1) THEN Some(direct[procs[p].sha1]) ELSE None)
       ELSE (IF path \in DOMAIN ext
             THEN Some(File(ext[path].data, ModeDefault)) ELSE None)

\* what is left once the file at info.path is gone
trashRemoved(p) ==
    /\ direct' = IF The(procs[p].path) = directPath(procs[p].sha1)
                 THEN trashUnlink(direct, procs[p].sha1) ELSE direct
    /\ ext' = IF The(procs[p].path) = directPath(procs[p].sha1)
              THEN ext ELSE Drop(ext, The(procs[p].path))

\* fs.promises.unlink(info.path) has completed, or has failed on a file
\* that is gone
TrashUnlinked(p) ==
    /\ procs[p].op = "trash"
    /\ procs[p].pc = "unlinking"
    /\ IF trashSource(p) = None
       THEN /\ procs' = [procs EXCEPT ![p].pc = "done", ![p].result = "error"]
            /\ UNCHANGED <<direct, ext>>
       ELSE /\ procs' = [procs EXCEPT ![p].pc = "done", ![p].result = "ok"]
            /\ trashRemoved(p)
    /\ UNCHANGED <<links, tmps, fired, ncalls, trash>>
    /\ UNCHANGED <<feedVars, hubVars, loadVars>>

\* fs.promises.rename(info.path, destPath) has completed (a file that is at
\* destPath by now is replaced), or has failed on a file that is gone
TrashRenamed(p) ==
    /\ procs[p].op = "trash"
    /\ procs[p].pc = "renaming"
    /\ IF trashSource(p) = None
       THEN /\ procs' = [procs EXCEPT ![p].pc = "done", ![p].result = "error"]
            /\ UNCHANGED <<direct, ext, trash>>
       ELSE /\ procs' = [procs EXCEPT ![p].pc = "done", ![p].result = "ok"]
            /\ trash' = Put(trash, procs[p].sha1, The(trashSource(p)))
            /\ trashRemoved(p)
    /\ UNCHANGED <<links, tmps, fired, ncalls>>
    /\ UNCHANGED <<feedVars, hubVars, loadVars>>

\* the source delivers n bytes more after its error event: ds.onData
\* returns at if (complete) return
StreamLateData(p, n) ==
    /\ procs[p].op = "stream"
    /\ procs[p].terminal = "error"
    /\ n <= Len(procs[p].src)
    /\ procs' = [procs EXCEPT ![p] =
           IF procs[p].complete
           THEN [@ EXCEPT !.src = SubSeq(@, n + 1, Len(@)), !.late = @ \cup {"data"}]
           ELSE [onData(@, SubSeq(procs[p].src, 1, n)) EXCEPT !.late = @ \cup {"data"}]]
    /\ UNCHANGED <<direct, links, tmps, ext, fired, ncalls>>
    /\ UNCHANGED <<feedVars, trash, hubVars, loadVars>>

\* ... or its finish event: ds.onFinished returns at if (complete) return
StreamLateFinished(p) ==
    /\ procs[p].op = "stream"
    /\ procs[p].terminal = "error"
    /\ procs[p].complete
    /\ "finished" \notin procs[p].late
    /\ procs' = [procs EXCEPT ![p].late = @ \cup {"finished"}]
    /\ UNCHANGED <<direct, links, tmps, ext, fired, ncalls>>
    /\ UNCHANGED <<feedVars, trash, hubVars, loadVars>>

----------------------------------------------------------------------------
(* linkLocalFile(localFilePath, {size, mtime}) *)

linkTmp(p) == <<p, "link">>

Abs(x) == IF x < 0 THEN -x ELSE x

\* Math.abs(mtime - o.mtime) > 0.002, in seconds in the source
mtimeToleranceMsec == 2

\* rejects at a difference of exactly the tolerance too
linkCheckStrict(obsSize, obsMtime, oSize, oMtime) ==
    IF obsSize # oSize THEN "size"
    ELSE IF Abs(obsMtime - oMtime) >= mtimeToleranceMsec THEN "mtime"
    ELSE "none"

\* the two checks on what stat observed: the reason to reject, or "none"
linkCheck(obsSize, obsMtime, oSize, oMtime) ==
    IF obsSize # oSize THEN "size"
    ELSE IF Abs(obsMtime - oMtime) > mtimeToleranceMsec THEN "mtime"
    ELSE "none"

\* the call, at the instant stat answers: reject, or start hashing the first
\* fileSize bytes of the file with calculateHashOnly
LinkCall(p, path, oSize, oMtime) ==
    /\ procs[p].pc = "idle"
    /\ ncalls < MaxCalls
    /\ ncalls' = ncalls + 1
    /\ IF path \notin DOMAIN ext
       THEN procs' = [procs EXCEPT ![p] =
                [IdleProc EXCEPT !.op = "link", !.pc = "done", !.result = "rejected",
                                 !.reason = "stat",
                                 !.link = [NoLinkCall EXCEPT !.path = path,
                                               !.size = oSize, !.mtime = oMtime]]]
       ELSE LET obsSize == Len(ext[path].data)
                obsMtime == ext[path].mtime
                args == [path |-> path, size |-> oSize, mtime |-> oMtime]
                why == linkCheck(obsSize, obsMtime, oSize, oMtime)
            IN procs' = [procs EXCEPT ![p] =
                 IF why # "none"
                 THEN [IdleProc EXCEPT !.op = "link", !.pc = "done",
                                       !.result = "rejected", !.reason = why,
                                       !.link = args]
                 ELSE [streamStarted("link", ext[path].data, obsSize, TRUE)
                           EXCEPT !.link = args]]
    /\ UNCHANGED <<direct, links, tmps, ext, fired>>
    /\ UNCHANGED <<feedVars, trash, hubVars, loadVars>>

\* the link object x; size and mtime are its stat
linkObject(me) ==
    [json |-> "link", path |-> me.link.path, manifestSha1 |-> me.retManifestSha1,
     size |-> me.link.size, mtime |-> me.link.mtime]

\* after await storeFileFromStream: nothing to write if the content path
\* exists, else writeFile of the link object to a temporary file
LinkResume(p) ==
    /\ procs[p].op = "link"
    /\ procs[p].pc = "linkresume"
    /\ IF existsDirect(procs[p].retSha1)
       THEN /\ procs' = [procs EXCEPT ![p].pc = "done", ![p].result = "resolved"]
            /\ UNCHANGED tmps
       ELSE /\ procs' = [procs EXCEPT ![p].pc = "linkwriting"]
            /\ tmps' = Put(tmps, linkTmp(p), File(<< >>, ModeDefault))
    /\ UNCHANGED <<direct, links, ext, fired, ncalls>>
    /\ UNCHANGED <<feedVars, trash, hubVars, loadVars>>

\* after await writeFile: renameSync(tmpPath, destPath + '.link')
LinkWritten(p) ==
    /\ procs[p].op = "link"
    /\ procs[p].pc = "linkwriting"
    /\ links' = Put(links, procs[p].retSha1, linkObject(procs[p]))
    /\ tmps' = Drop(tmps, linkTmp(p))
    /\ procs' = [procs EXCEPT ![p].pc = "done", ![p].result = "resolved"]
    /\ UNCHANGED <<direct, ext, fired, ncalls>>
    /\ UNCHANGED <<feedVars, trash, hubVars, loadVars>>

----------------------------------------------------------------------------
(* What is not the daemon: the owner of an external file writes or removes *)
(* it (a write never sets the modification time back); another program on  *)
(* the storage directory leaves a link file that is not a link object.     *)

ExternalFileWritten(path, data, mtime) ==
    /\ path \in DOMAIN ext => mtime >= ext[path].mtime
    /\ ext' = Put(ext, path, [data |-> data, mtime |-> mtime])
    /\ UNCHANGED <<direct, links, tmps, fired, procs, ncalls>>
    /\ UNCHANGED <<feedVars, trash, hubVars, loadVars>>

ExternalFileRemoved(path) ==
    /\ path \in DOMAIN ext
    /\ ext' = Drop(ext, path)
    /\ UNCHANGED <<direct, links, tmps, fired, procs, ncalls>>
    /\ UNCHANGED <<feedVars, trash, hubVars, loadVars>>

\* json: "unparsable" (readJsonFile gives null), "other" (JSON, and not a
\* link object)
ForeignLinkFile(h, json) ==
    /\ h \notin DOMAIN links
    /\ \A k \in DOMAIN links : links[k].json = "link"
    /\ links' = Put(links, h, [json |-> json, path |-> "", manifestSha1 |-> Null,
                               size |-> 0, mtime |-> 0])
    /\ UNCHANGED <<direct, tmps, ext, fired, procs, ncalls>>
    /\ UNCHANGED <<feedVars, trash, hubVars, loadVars>>

----------------------------------------------------------------------------
(* LocalSubfeedSignedMessagesManager.  A signed message is a body           *)
(* (messageNumber, previousSignature) and a signature.  Ed25519 is taken as *)
(* unforgeable: the signature of a body under a key is the pair of them,    *)
(* and it verifies under that key only.  A null or absent previousSignature *)
(* is NoSignature.                                                          *)

NoSignature == << >>

\* the key pair of the subfeed (this.publicKey) and any other one
OwnerKey == "owner"
OtherKey == "other"

Sign(body, key) == <<key, body.messageNumber, body.previousSignature>>

verifySignature(body, publicKey, signature) == signature = Sign(body, publicKey)

SignedMessage(num, prev, key) ==
    LET body == [messageNumber |-> num, previousSignature |-> prev]
    IN [body |-> body, signature |-> Sign(body, key)]

\* the n-th message of the chain its owner signs
RECURSIVE ChainMessage(_)
ChainMessage(n) ==
    SignedMessage(n, IF n = 0 THEN NoSignature ELSE ChainMessage(n - 1).signature,
                  OwnerKey)

\* the callers: the one that initializes, and two writers
Loader == "loader"
Writers == {"w1", "w2"}
FeedCallers == {Loader} \cup Writers

\* batch: the argument of addSignedMessages; messages: what
\* getSignedSubfeedMessages returned; round, seen, seenResult: the calls of
\* this caller that have returned, the list and the outcome at the last return
IdleCall ==
    [op |-> "none", pc |-> "idle", batch |-> << >>, messages |-> << >>,
     result |-> "none", reason |-> "none", round |-> 0, seen |-> None,
     seenResult |-> "none"]

\* this.#signedMessages of an initialized manager, and its readers
signedMessages == The(mem)
isInitialized == mem # None
getNumMessages == Len(signedMessages)
getSignedMessage(i) == signedMessages[i + 1]

\* the readers and addSignedMessages throw at once on a null list
getNumMessagesThrows == mem = None
getMessagesThrows == mem = None
getSignedMessageThrows == mem = None
addSignedMessagesThrows == mem = None

\* what the disk holds from before, message by message
DiskLogAppend(m) ==
    /\ mem = None
    /\ calls[Loader].pc = "idle"
    /\ log' = Append(log, m)
    /\ UNCHANGED <<mem, calls>>
    /\ UNCHANGED <<casVars, trash, hubVars, loadVars>>

\* initializeFromLocal up to await getSignedSubfeedMessages
InitializeLoad ==
    /\ calls[Loader].pc = "idle"
    /\ calls' = [calls EXCEPT ![Loader] =
           [@ EXCEPT !.op = "init", !.pc = "loaded", !.messages = log]]
    /\ UNCHANGED <<log, mem>>
    /\ UNCHANGED <<casVars, trash, hubVars, loadVars>>

\* accepts any previousSignature
initializeCheckNoChain(messages, i, previousSignature, previousMessageNumber) ==
    IF \E j \in 1..Len(messages) :
           ~verifySignature(messages[j].body, OwnerKey, messages[j].signature)
    THEN "signature"
    ELSE IF \E j \in 1..Len(messages) : messages[j].body.messageNumber # j - 1
    THEN "messageNumber"
    ELSE "ok"

\* accepts any messageNumber
RECURSIVE initializeCheckNoNumber(_, _, _, _)
initializeCheckNoNumber(messages, i, previousSignature, previousMessageNumber) ==
    IF i > Len(messages) THEN "ok"
    ELSE LET msg == messages[i]
         IN IF ~verifySignature(msg.body, OwnerKey, msg.signature) THEN "signature"
            ELSE IF previousSignature # msg.body.previousSignature
            THEN "previousSignature"
            ELSE initializeCheckNoNumber(messages, i + 1, msg.signature,
                                         msg.body.messageNumber)

\* the verification loop from message i on: "ok", or the check that throws
RECURSIVE initializeCheck(_, _, _, _)
initializeCheck(messages, i, previousSignature, previousMessageNumber) ==
    IF i > Len(messages) THEN "ok"
    ELSE LET msg == messages[i]
         IN IF ~verifySignature(msg.body, OwnerKey, msg.signature) THEN "signature"
            ELSE IF previousSignature # msg.body.previousSignature
            THEN "previousSignature"
            ELSE IF previousMessageNumber + 1 # msg.body.messageNumber
            THEN "messageNumber"
            ELSE initializeCheck(messages, i + 1, msg.signature,
                                 msg.body.messageNumber)

\* the loop (its awaits touch locals only), then this.#signedMessages = messages
InitializeVerified ==
    /\ calls[Loader].pc = "loaded"
    /\ LET why == initializeCheck(calls[Loader].messages, 1, NoSignature, -1)
       IN IF why = "ok"
          THEN /\ mem' = Some(calls[Loader].messages)
               /\ calls' = [calls EXCEPT ![Loader].pc = "done",
                                         ![Loader].result = "ok"]
          ELSE /\ calls' = [calls EXCEPT ![Loader].pc = "done",
                                         ![Loader].result = "rejected",
                                         ![Loader].reason = why]
               /\ UNCHANGED mem
    /\ UNCHANGED log
    /\ UNCHANGED <<casVars, trash, hubVars, loadVars>>

\* initializeEmptyMessageList, by the owner of a subfeed not loaded yet
InitializeEmptyMessageList ==
    /\ mem = None
    /\ mem' = Some(<< >>)
    /\ UNCHANGED <<log, calls>>
    /\ UNCHANGED <<casVars, trash, hubVars, loadVars>>

\* checks the first call on an empty list only
addPreconditionEmptyOnly(ms, batch) ==
    /\ batch # << >>
    /\ ms = << >>
    /\ batch[1].body.messageNumber # 0

\* the precondition of addSignedMessages: TRUE when it throws
addPreconditionFails(ms, batch) ==
    /\ batch # << >>
    /\ IF ms = << >> THEN batch[1].body.messageNumber # 0
       ELSE batch[1].body.messageNumber > ms[Len(ms)].body.messageNumber + 1

\* addSignedMessages up to await addSignedMessagesToSubfeed
AddCall(w, batch) ==
    /\ calls[w].pc = "idle"
    /\ calls' = [calls EXCEPT ![w] =
           IF mem = None
           THEN [@ EXCEPT !.op = "add", !.pc = "done", !.batch = batch,
                          !.result = "rejected", !.reason = "uninitialized"]
           ELSE IF addPreconditionFails(signedMessages, batch)
           THEN [@ EXCEPT !.op = "add", !.pc = "done", !.batch = batch,
                          !.result = "rejected", !.reason = "precondition"]
           ELSE [@ EXCEPT !.op = "add", !.pc = "persisting", !.batch = batch,
                          !.result = "none", !.reason = "none"]]
    /\ UNCHANGED <<log, mem>>
    /\ UNCHANGED <<casVars, trash, hubVars, loadVars>>

\* LocalFeedManager.addSignedMessagesToSubfeed appends the batch to the
\* backing log, all of it at once
AddPersisted(w) ==
    /\ calls[w].pc = "persisting"
    /\ log' = log \o calls[w].batch
    /\ calls' = [calls EXCEPT ![w].pc = "persisted"]
    /\ UNCHANGED mem
    /\ UNCHANGED <<casVars, trash, hubVars, loadVars>>

\* ... or fails with none of it written: the await throws
AddPersistFailed(w) ==
    /\ calls[w].pc = "persisting"
    /\ calls' = [calls EXCEPT ![w].pc = "done", ![w].result = "rejected",
                              ![w].reason = "persist"]
    /\ UNCHANGED <<log, mem>>
    /\ UNCHANGED <<casVars, trash, hubVars, loadVars>>

\* pushes every message
pushesAlways(sm, ms) == TRUE

\* pushes a message numbered at or below the length
pushesUpTo(sm, ms) == sm.body.messageNumber <= Len(ms)

\* sm.body.messageNumber === this.#signedMessages.length
pushes(sm, ms) == sm.body.messageNumber = Len(ms)

\* starts the list again at a message numbered 0
RECURSIVE addLoopRestarts(_, _, _)
addLoopRestarts(ms, batch, i) ==
    IF i > Len(batch) THEN ms
    ELSE addLoopRestarts(IF batch[i].body.messageNumber = 0 THEN <<batch[i]>>
                         ELSE IF pushes(batch[i], ms) THEN Append(ms, batch[i])
                         ELSE ms,
                         batch, i + 1)

\* the for loop over signedMessagesToAdd from position i on
RECURSIVE addLoop(_, _, _)
addLoop(ms, batch, i) ==
    IF i > Len(batch) THEN ms
    ELSE addLoop(IF pushes(batch[i], ms) THEN Append(ms, batch[i]) ELSE ms,
                 batch, i + 1)

\* after the await: the loop
AddResume(w) ==
    /\ calls[w].pc = "persisted"
    /\ mem' = Some(addLoop(signedMessages, calls[w].batch, 1))
    /\ calls' = [calls EXCEPT ![w].pc = "done", ![w].result = "ok"]
    /\ UNCHANGED log
    /\ UNCHANGED <<casVars, trash, hubVars, loadVars>>

\* the caller has its answer and may call again
AddReturn(w) ==
    /\ calls[w].op = "add"
    /\ calls[w].pc = "done"
    /\ calls' = [calls EXCEPT ![w] =
           [@ EXCEPT !.pc = "idle", !.round = @ + 1, !.seen = mem,
                     !.seenResult = calls[w].result]]
    /\ UNCHANGED <<log, mem>>
    /\ UNCHANGED <<casVars, trash, hubVars, loadVars>>

----------------------------------------------------------------------------
(* KacheryHubInterface.  A membership is {channelName, bucket (a           *)
(* channelBucketUri is there), authorized (an authorization is there),     *)
(* roles, permissions}.  The pubsub channel <C>-<op> is the pair <<C, op>>. *)
(* The pubsub client of a channel delivers the messages of the pubsub      *)
(* channels it was created with, and no others.                            *)

Ops == {"requestFiles", "provideFiles", "requestFeeds", "provideFeeds"}

pubsubChannelName(channelName, op) == <<channelName, op>>

\* who calls initialize() besides the constructor
Callers == {"a", "b", "c"}

\* the interface when its constructor returns: the initialize() call of the
\* constructor has set #initializing and waits in _doInitialize for
\* fetchNodeConfig.  runs, completed: the _doInitialize runs started and
\* completed; callbacks: the callers in #onInitializedCallbacks; callers:
\* where each initialize() call stands
NoConfig ==
    [initialized |-> FALSE, nodeConfig |-> None, initializing |-> TRUE, runs |-> 1,
     completed |-> 0, callbacks |-> {}, callers |-> [c \in Callers |-> "idle"]]

\* never waits for the run in progress
awaitsRunNever(cfg) == FALSE

\* if (this.#initializing)
awaitsRun(cfg) == cfg.initializing

\* initialize() called by c: returns at once when initialized, waits for its
\* callback when a run is in progress, else starts _doInitialize
InitializeCall(c) ==
    /\ config.callers[c] = "idle"
    /\ config' =
           IF config.initialized
           THEN [config EXCEPT !.callers[c] = "returned"]
           ELSE IF awaitsRun(config)
           THEN [config EXCEPT !.callers[c] = "waiting", !.callbacks = @ \cup {c}]
           ELSE [config EXCEPT !.callers[c] = "running", !.initializing = TRUE,
                               !.runs = @ + 1]
    /\ UNCHANGED <<clients, subscribed, published, dispatched, waiter, fetched>>
    /\ UNCHANGED <<casVars, feedVars, trash, loadVars>>

\* after await this._doInitialize(): the flags, then every callback
initializeDone(cfg, nodeConfig) ==
    [cfg EXCEPT !.initialized = TRUE, !.initializing = FALSE, !.nodeConfig = nodeConfig,
                !.completed = @ + 1,
                !.callers = [c \in Callers |->
                                IF c \in cfg.callbacks \/ cfg.callers[c] = "running"
                                THEN "returned" ELSE cfg.callers[c]]]

channelMemberships == IF config.nodeConfig = None THEN << >> ELSE The(config.nodeConfig)

\* _getChannelMembership(channelName): {} for undefined
getChannelMembership(channelName) ==
    LET hits == {i \in 1..Len(channelMemberships) :
                    channelMemberships[i].channelName = channelName}
    IN IF hits = {} THEN None
       ELSE Some(channelMemberships[CHOOSE i \in hits : \A j \in hits : i <= j])

\* the requestFileFromChannels call: status is '' (here "none"), "pending",
\* "started" or "finished"; result is what the promise resolved with
\* elapsed: elapsedSince(timer), in seconds
IdleWaiter ==
    [pc |-> "idle", fileKey |-> None, status |-> "none", complete |-> FALSE,
     result |-> None, elapsed |-> 0]

\* subscribes on the permission alone
subscribeToPubsubChannelsNoRole(cm) ==
    (IF "requestFiles" \in cm.permissions
     THEN {pubsubChannelName(cm.channelName, "provideFiles")} ELSE {})
    \cup (IF "provideFiles" \in cm.permissions
          THEN {pubsubChannelName(cm.channelName, "requestFiles")} ELSE {})
    \cup (IF "requestFeeds" \in cm.permissions
          THEN {pubsubChannelName(cm.channelName, "provideFeeds")} ELSE {})
    \cup (IF "provideFeeds" \in cm.permissions
          THEN {pubsubChannelName(cm.channelName, "requestFeeds")} ELSE {})

\* subscribeToPubsubChannels of _doInitialize for an authorized membership
subscribeToPubsubChannels(cm) ==
    (IF "requestFiles" \in cm.permissions /\ "requestFiles" \in cm.roles
     THEN {pubsubChannelName(cm.channelName, "provideFiles")} ELSE {})
    \cup (IF "provideFiles" \in cm.permissions /\ "provideFiles" \in cm.roles
          THEN {pubsubChannelName(cm.channelName, "requestFiles")} ELSE {})
    \cup (IF "requestFeeds" \in cm.permissions /\ "requestFeeds" \in cm.roles
          THEN {pubsubChannelName(cm.channelName, "provideFeeds")} ELSE {})
    \cup (IF "provideFeeds" \in cm.permissions /\ "provideFeeds" \in cm.roles
          THEN {pubsubChannelName(cm.channelName, "requestFeeds")} ELSE {})

\* initialize(): _doInitialize with the node config that was fetched
DoInitialize(cms) ==
    /\ ~config.initialized
    /\ config.initializing
    /\ config' = initializeDone(config, Some(cms))
    /\ clients' = {cms[i].channelName : i \in {j \in 1..Len(cms) : cms[j].authorized}}
    /\ subscribed' = UNION {subscribeToPubsubChannels(cms[i]) :
                               i \in {j \in 1..Len(cms) : cms[j].authorized}}
    /\ UNCHANGED <<published, dispatched, waiter, fetched>>
    /\ UNCHANGED <<casVars, feedVars, trash, loadVars>>

\* initialize(): fetchNodeConfig threw, #nodeConfig stays null
DoInitializeFailed ==
    /\ ~config.initialized
    /\ config.initializing
    /\ config' = initializeDone(config, None)
    /\ UNCHANGED <<clients, subscribed, published, dispatched, waiter, fetched>>
    /\ UNCHANGED <<casVars, feedVars, trash, loadVars>>

\* _publishMessageToPubsubChannel: nothing without a pubsub client
publishMessageToPubsubChannel(out, channelName, op, body) ==
    IF channelName \in clients
    THEN Append(out, [channelName |-> channelName,
                      pubsubChannelName |-> pubsubChannelName(channelName, op),
                      body |-> body])
    ELSE out

\* (au) && (au.permissions.requestFiles)
requestsFiles(cm) == cm.authorized /\ "requestFiles" \in cm.permissions

\* the publish loop of requestFileFromChannels from membership i on
RECURSIVE publishRequestFile(_, _, _)
publishRequestFile(out, fileKey, i) ==
    IF i > Len(channelMemberships) THEN out
    ELSE LET cm == channelMemberships[i]
         IN publishRequestFile(
                IF requestsFiles(cm)
                THEN publishMessageToPubsubChannel(out, cm.channelName, "requestFiles",
                         [type |-> "requestFile", fileKey |-> fileKey, status |-> "none"])
                ELSE out,
                fileKey, i + 1)

\* requestFileFromChannels after await initialize(): false without a node
\* config, else the listener, the publish loop and the first check()
requestFileStarted(fileKey) ==
    IF config.nodeConfig = None
    THEN /\ waiter' = [IdleWaiter EXCEPT !.pc = "done", !.fileKey = Some(fileKey),
                                         !.result = Some(FALSE)]
         /\ UNCHANGED published
    ELSE /\ waiter' = [IdleWaiter EXCEPT !.pc = "waiting", !.fileKey = Some(fileKey)]
         /\ published' = publishRequestFile(published, fileKey, 1)

RequestFileCall(fileKey) ==
    /\ config.initialized
    /\ waiter.pc = "idle"
    /\ requestFileStarted(fileKey)
    /\ UNCHANGED <<config, clients, subscribed, dispatched, fetched>>
    /\ UNCHANGED <<casVars, feedVars, trash, loadVars>>

\* the limits of check(), in seconds
noResponseTimeout == 3
pendingTimeout == 30
startedTimeout == 30

\* the limit check() compares elapsedSince(timer) with
stageDeadline(status) ==
    CASE status = "none" -> noResponseTimeout
      [] status = "pending" -> pendingTimeout
      [] OTHER -> startedTimeout

\* the longest time the clock is followed since the timer was set
MaxElapsed == 31

\* d seconds pass while the request waits
TimePasses(d) ==
    /\ waiter.pc = "waiting"
    /\ waiter.elapsed + d <= MaxElapsed
    /\ waiter' = [waiter EXCEPT !.elapsed = @ + d]
    /\ UNCHANGED <<config, clients, subscribed, published, dispatched, fetched>>
    /\ UNCHANGED <<casVars, feedVars, trash, loadVars>>

\* passes the limit as soon as it is reached
timedOutAtLimit(status, elapsed) == elapsed >= stageDeadline(status)

\* elapsed > 3000, elapsed > 30000, elapsed > 30000
timedOut(status, elapsed) == elapsed > stageDeadline(status)

\* check(): the deadline of the present status has passed
RequestFileTimeout ==
    /\ waiter.pc = "waiting"
    /\ ~waiter.complete
    /\ timedOut(waiter.status, waiter.elapsed)
    /\ waiter' = [waiter EXCEPT !.pc = "done", !.complete = TRUE, !.result = Some(FALSE)]
    /\ UNCHANGED <<config, clients, subscribed, published, dispatched, fetched>>
    /\ UNCHANGED <<casVars, feedVars, trash, loadVars>>

\* the memberships subscribeToRemoteSubfeed publishes to, from i on
RECURSIVE publishRequestSubfeed(_, _)
publishRequestSubfeed(out, i) ==
    IF i > Len(channelMemberships) THEN out
    ELSE LET cm == channelMemberships[i]
         IN publishRequestSubfeed(
                IF "requestFeeds" \in cm.roles /\ cm.authorized
                       /\ "requestFeeds" \in cm.permissions
                THEN publishMessageToPubsubChannel(out, cm.channelName, "requestFeeds",
                         [type |-> "requestSubfeed", fileKey |-> None, status |-> "none"])
                ELSE out,
                i + 1)

\* subscribeToRemoteSubfeed after await initialize()
SubscribeToRemoteSubfeed ==
    /\ config.initialized
    /\ config.nodeConfig # None
    /\ published' = publishRequestSubfeed(published, 1)
    /\ UNCHANGED <<config, clients, subscribed, dispatched, waiter, fetched>>
    /\ UNCHANGED <<casVars, feedVars, trash, loadVars>>

stageFromStatus(status) ==
    CASE status = "none" -> 0
      [] status = "pending" -> 1
      [] status = "started" -> 2
      [] OTHER -> 3

\* (msg.message.type === 'uploadFileStatus') && fileKeysMatch(...)
listenerAccepts(x, w) ==
    /\ x.message.type = "uploadFileStatus"
    /\ Some(x.message.fileKey) = w.fileKey

\* advances on a message of the present stage too
advancesOrRepeats(newStatus, status) == stageFromStatus(newStatus) >= stageFromStatus(status)

\* newStage > currentStage
advances(newStatus, status) == stageFromStatus(newStatus) > stageFromStatus(status)

\* the listener of requestFileFromChannels on the incoming message x
requestFileListener(x, w) ==
    IF w.pc # "waiting" \/ w.complete THEN w
    ELSE IF ~listenerAccepts(x, w) THEN w
    ELSE LET moved == advances(x.message.status, w.status)
             status == IF moved THEN x.message.status ELSE w.status
             elapsed == IF moved THEN 0 ELSE w.elapsed
         IN IF status = "finished"
            THEN [w EXCEPT !.status = status, !.elapsed = elapsed, !.complete = TRUE,
                           !.pc = "done", !.result = Some(TRUE)]
            ELSE [w EXCEPT !.status = status, !.elapsed = elapsed]

\* the callbacks _handleKacheryHubPubsubMessage invokes on x
handleKacheryHubPubsubMessage(x) ==
    LET msg == x.message
        cm == getChannelMembership(x.channelName)
    IN IF msg.type = "requestFile"
       THEN IF x.pubsubChannelName # pubsubChannelName(x.channelName, "requestFiles")
            THEN {}
            ELSE IF cm = None THEN {}
            ELSE IF ~The(cm).bucket THEN {}
            ELSE {"incomingFileRequest"}
       ELSE IF msg.type = "requestSubfeed"
       THEN IF x.pubsubChannelName # pubsubChannelName(x.channelName, "requestFeeds")
            THEN {}
            ELSE IF config.nodeConfig = None THEN {}
            ELSE IF cm = None THEN {}
            ELSE IF "provideFeeds" \in The(cm).roles /\ The(cm).authorized
                       /\ "provideFeeds" \in The(cm).permissions
            THEN {"requestSubfeed"} ELSE {}
       ELSE IF msg.type = "subfeedMessageCountUpdate"
       THEN IF x.pubsubChannelName # pubsubChannelName(x.channelName, "provideFeeds")
            THEN {}
            ELSE {"subfeedMessageCountUpdate"}
       ELSE {}

\* getSubfeedPath: a path is the sequence of its "/"-separated segments, a
\* segment the sequence of its pieces.  The template has no "$", so every
\* {...} stands for itself, and "//" leaves an empty segment.
getSubfeedPath(feedId, subfeedHash) ==
    << <<"feeds">>, <<"{f[0]}{f[1]}">>, <<"{f[2]}{f[3]}">>, <<"{f[4]}{f[5]}">>, <<"{f}">>,
       <<"subfeeds">>, <<"{s[0]}{s[1]}">>, <<"{s[2]}{s[3]}">>, << >>,
       <<"{s[4]}{s[5]}">>, <<"{s}">> >>

\* the object `${subfeedPath}/subfeed.json` (number None) or
\* `${subfeedPath}/${i}` (number Some(i))
bucketObject(feedId, subfeedHash, number) ==
    [feedId |-> feedId, subfeedHash |-> subfeedHash,
     subfeedPath |-> getSubfeedPath(feedId, subfeedHash), number |-> number]

\* the objects downloadSignedSubfeedMessages asks for: subfeed.json, then
\* the messages start, start+1, ... up to the first one that is missing
messageObjects(feedId, subfeedHash, start, end, messageCount, have) ==
    <<bucketObject(feedId, subfeedHash, None)>>
    \o (IF messageCount = None \/ The(messageCount) < end THEN << >>
        ELSE [i \in 1..((IF have < end THEN have + 1 ELSE end) - start) |->
                 bucketObject(feedId, subfeedHash, Some(start + i - 1))])

\* downloadSignedSubfeedMessages(channelName, feedId, subfeedHash, start, end)
\* where subfeed.json holds messageCount (None: no such object) and the
\* bucket has the messages below have
DownloadSignedSubfeedMessages(channelName, feedId, subfeedHash, start, end, messageCount, have) ==
    /\ config.initialized
    /\ LET cm == getChannelMembership(channelName)
       IN IF config.nodeConfig = None \/ cm = None THEN UNCHANGED fetched
          ELSE IF ~The(cm).bucket THEN UNCHANGED fetched
          ELSE fetched' = fetched \o messageObjects(feedId, subfeedHash, start, end,
                                                     messageCount, have)
    /\ UNCHANGED <<config, clients, subscribed, published, dispatched, waiter>>
    /\ UNCHANGED <<casVars, feedVars, trash, loadVars>>

\* the pubsub client of a channel receives on the pubsub channels it was
\* created with
delivers(x) == x.channelName \in clients /\ x.pubsubChannelName \in subscribed

\* the pubsub client hands the message x to its listeners: the handler of
\* the interface, and the listener of the request in flight
IncomingPubsubMessage(x) ==
    /\ delivers(x)
    /\ dispatched' = Append(dispatched, [x |-> x, cbs |-> handleKacheryHubPubsubMessage(x)])
    /\ waiter' = requestFileListener(x, waiter)
    /\ UNCHANGED <<config, clients, subscribed, published, fetched>>
    /\ UNCHANGED <<casVars, feedVars, trash, loadVars>>

----------------------------------------------------------------------------
(* loadFile(node, fileKey, opts).  ret is the terminal event of the         *)
(* DataStream that loadFile made itself; when loadFile returns the stream   *)
(* of storeFileFromBucketUrl, that stream is the one of call loadProc(l).   *)

FileLoader == 1
Loads == {FileLoader}

\* the storeFileFromBucketUrl call of a load
loadProc(l) == l

\* pass: the pass of the loop of loadFileWithoutManifest; probes, requests:
\* the calls of checkForFileInChannelBucket and requestFileFromChannel made
\* so far; found: a probe answered with a URL; returned: what loadFile
\* returned ("own": a stream it made, "bucket": the stream of
\* storeFileFromBucketUrl, "thrown": it threw)
\* the state of loadFileWithManifest.  chunks: for each chunk of the
\* manifest, ds (the DataStream of its loadFile: "none" before the call,
\* "calling" while loadFile has not returned, "loading" once it returned
\* the stream, then "finished" or "error"; "thrown" when loadFile threw),
\* attempts (the loadFile calls made for it) and cancels (the cancel()
\* calls on its stream); chunkDataStreams: the chunks whose stream is in
\* that list; i, numComplete, numRunning, error: the variables of
\* asyncLoop, loop its promise; chunksComplete, errored: numComplete and
\* errored of the manifest load; concat: the
\* concatenateChunksAndStoreResult call, concatCalls how often it was
\* called
NoManifestLoad ==
    [chunks |-> << >>, chunkDataStreams |-> {}, i |-> 0, numComplete |-> 0,
     numRunning |-> 0, error |-> FALSE, loop |-> "none", chunksComplete |-> 0,
     errored |-> FALSE, concat |-> "none", concatCalls |-> 0]

NoChunk == [ds |-> "none", attempts |-> 0, cancels |-> 0]

\* ends, errors: the terminal events the stream of loadFile delivered;
\* manifest: the manifest file as loadFileWithManifest read it
IdleLoad ==
    [pc |-> "idle", fileKey |-> None, channelName |-> None, pass |-> 0,
     probes |-> 0, requests |-> 0, found |-> FALSE, returned |-> "none",
     ret |-> "none", reason |-> "none", ends |-> 0, errors |-> 0,
     manifest |-> None, m |-> NoManifestLoad]

hasManifest(fileKey) ==
    "manifestSha1" \in DOMAIN fileKey /\ fileKey.manifestSha1 # None

\* "for debugging (not finding locally) switch to false"
foundLocallyNever(r) == FALSE

\* if (r.found) { if (true) {...} }
foundLocally(r) == r.found

\* DataStreamy: producer().end() and producer().error(err) deliver a
\* terminal event unless one was delivered before
producerEnd(me) ==
    IF me.ret # "none" THEN me ELSE [me EXCEPT !.ret = "end", !.ends = @ + 1]

producerError(me, why) ==
    IF me.ret # "none" THEN me
    ELSE [me EXCEPT !.ret = "error", !.reason = why, !.errors = @ + 1]

\* a new DataStreamy whose producer has ended, or has reported the error
endedStream(me) == producerEnd([me EXCEPT !.pc = "done", !.returned = "own"])
errorStream(me, why) == producerError([me EXCEPT !.pc = "done", !.returned = "own"], why)

LoadCall(l, fileKey, channelName) ==
    /\ loads[l].pc = "idle"
    /\ loads' = [loads EXCEPT ![l] =
           [IdleLoad EXCEPT !.pc = "finding", !.fileKey = Some(fileKey),
                            !.channelName = channelName]]
    /\ UNCHANGED <<casVars, feedVars, trash, hubVars>>

\* loadFileWithoutManifest up to its first await
loadFileWithoutManifest(me) ==
    IF me.channelName = None
    THEN errorStream(me, "Unable to find file. No channelName specified.")
    ELSE [me EXCEPT !.pc = "probing", !.pass = 1, !.probes = 1]

\* findFile has answered
LoadFindFile(l) ==
    /\ loads[l].pc = "finding"
    /\ foundLocally(findFile(The(loads[l].fileKey))) \/ ~hasManifest(The(loads[l].fileKey))
    /\ loads' = [loads EXCEPT ![l] =
           IF foundLocally(findFile(The(loads[l].fileKey))) THEN endedStream(@)
           ELSE loadFileWithoutManifest(@)]
    /\ UNCHANGED <<casVars, feedVars, trash, hubVars>>

\* checkForFileInChannelBucket(sha1, channelName): the URL of the object in
\* the bucket of the channel if the node is a member of the channel, the
\* channel has a bucket and the object exists there
checkForFileInChannelBucket(channelName, exists) ==
    IF config.nodeConfig = None THEN FALSE
    ELSE IF getChannelMembership(channelName) = None THEN FALSE
    ELSE The(getChannelMembership(channelName)).bucket /\ exists

\* goes on to the second pass whatever the request came to
loadContinuesAlways(success) == TRUE

\* if (!success) break
loadContinues(success) == success

\* the probe of this pass has answered
LoadProbed(l, exists) ==
    /\ loads[l].pc = "probing"
    /\ config.initialized
    /\ IF checkForFileInChannelBucket(The(loads[l].channelName), exists)
       THEN /\ loads' = [loads EXCEPT ![l].pc = "opening", ![l].found = TRUE]
            /\ UNCHANGED <<waiter, published>>
       ELSE IF loads[l].pass = 1
       THEN /\ waiter.pc = "idle"
            /\ requestFileStarted(The(loads[l].fileKey))
            /\ loads' = [loads EXCEPT ![l].pc = "requesting", ![l].requests = @ + 1]
       ELSE /\ loads' = [loads EXCEPT ![l] = errorStream(@, "Unable to find file")]
            /\ UNCHANGED <<waiter, published>>
    /\ UNCHANGED <<config, clients, subscribed, dispatched, fetched>>
    /\ UNCHANGED <<casVars, feedVars, trash>>

\* requestFileFromChannel has resolved
LoadRequested(l) ==
    /\ loads[l].pc = "requesting"
    /\ waiter.pc = "done"
    /\ loads' = [loads EXCEPT ![l] =
           IF loadContinues(The(waiter.result))
           THEN [@ EXCEPT !.pc = "probing", !.pass = 2, !.probes = @ + 1]
           ELSE errorStream(@, "Unable to find file")]
    /\ UNCHANGED <<casVars, feedVars, trash, hubVars>>

\* storeFileFromBucketUrl has returned its DataStream
LoadOpened(l, B, size) ==
    /\ loads[l].pc = "opening"
    /\ bucketStarted(loadProc(l), The(The(loads[l].fileKey).sha1), B, size)
    /\ loads' = [loads EXCEPT ![l].pc = "done", ![l].returned = "bucket"]
    /\ UNCHANGED <<feedVars, trash, hubVars>>

\* storeFileFromBucketUrl threw: axios.get failed
LoadOpenFailed(l) ==
    /\ loads[l].pc = "opening"
    /\ loads' = [loads EXCEPT ![l].pc = "done", ![l].returned = "thrown"]
    /\ UNCHANGED <<casVars, feedVars, trash, hubVars>>

(* loadFileWithManifest.  The load of the manifest file, the load of each  *)
(* chunk and concatenateChunksAndStoreResult are calls of operations        *)
(* modelled above; here each is the event that ends it.                     *)

numSimultaneous == 5

ManifestKey(h, mh) == [sha1 |-> Some(h), chunkOf |-> None, manifestSha1 |-> Some(mh)]

\* starts a chunk whenever the list has one left
canStartAlways(numRunning) == TRUE

\* numRunning < opts.numSimultaneous
canStart(numRunning) == numRunning < numSimultaneous

\* func(list[c - 1], c - 1) up to its first await
startChunk(m, c) ==
    IF m.errored
    THEN [m EXCEPT !.numComplete = @ + 1, !.numRunning = @ - 1]
    ELSE [m EXCEPT !.chunks[c].ds = "calling", !.chunks[c].attempts = @ + 1]

\* update() of asyncLoop
RECURSIVE update(_)
update(m) ==
    IF m.error THEN m
    ELSE IF m.numComplete = Len(m.chunks)
    THEN [m EXCEPT !.loop = IF @ = "pending" THEN "resolved" ELSE @]
    ELSE IF canStart(m.numRunning) /\ m.i < Len(m.chunks)
    THEN update(startChunk([m EXCEPT !.i = @ + 1, !.numRunning = @ + 1], m.i + 1))
    ELSE m

\* concatenates as soon as one chunk is complete
allChunksCompleteEarly(numComplete, n) == numComplete >= 1

\* numComplete === manifest.chunks.length
allChunksComplete(numComplete, n) == numComplete = n

\* ds.onFinished of chunk c, then the .then() of asyncLoop and its update()
chunkOnFinished(m, c) ==
    LET m1 == [m EXCEPT !.chunks[c].ds = "finished", !.chunksComplete = @ + 1]
        m2 == IF allChunksComplete(m1.chunksComplete, Len(m1.chunks))
              THEN [m1 EXCEPT !.concat = "running", !.concatCalls = @ + 1]
              ELSE m1
    IN update([m2 EXCEPT !.numComplete = @ + 1, !.numRunning = @ - 1])

\* _cancelAllChunkDataStreams: ds.cancel() for every stream of the list,
\* and the list is emptied
cancelAllChunkDataStreams(m) ==
    [m EXCEPT !.chunks = [c \in 1..Len(m.chunks) |->
                 IF c \in m.chunkDataStreams
                 THEN [m.chunks[c] EXCEPT !.cancels = @ + 1]
                 ELSE m.chunks[c]],
              !.chunkDataStreams = {}]

\* the .catch() of asyncLoop for chunk c
loopCatch(m) ==
    [m EXCEPT !.error = TRUE, !.numRunning = @ - 1,
              !.loop = IF @ = "pending" THEN "rejected" ELSE @]

\* the catch around asyncLoop: ret.producer().error(err), whose onError
\* cancels the chunk streams
manifestLoadFailed(me, why) ==
    IF me.ret # "none" THEN me
    ELSE [producerError(me, why) EXCEPT !.m = cancelAllChunkDataStreams(@)]

\* takes any manifest for the manifest of the file
sha1MatchesFileKeyAlways(sha1, fileKey) == TRUE

\* sha1MatchesFileKey({sha1, fileKey})
sha1MatchesFileKey(sha1, fileKey) == fileKey.sha1 # None /\ fileKey.sha1 = Some(sha1)

\* findFile has answered "not found" for a key with a manifest:
\* loadFileWithManifest up to its first await
LoadManifestStart(l) ==
    /\ loads[l].pc = "finding"
    /\ hasManifest(The(loads[l].fileKey))
    /\ ~foundLocally(findFile(The(loads[l].fileKey)))
    /\ loads' = [loads EXCEPT ![l].pc = "loadingManifest"]
    /\ UNCHANGED <<casVars, feedVars, trash, hubVars>>

\* loadFileAsync of the manifest threw
ManifestFailed(l) ==
    /\ loads[l].pc = "loadingManifest"
    /\ loads' = [loads EXCEPT ![l] = errorStream(@, "Manifest not found")]
    /\ UNCHANGED <<casVars, feedVars, trash, hubVars>>

\* the manifest is local and has been read: it is a manifest or not, it is
\* for sha1, and it lists n chunks.  The loop starts its first chunks and
\* loadFile returns the stream.
ManifestLoaded(l, isFileManifest, sha1, n) ==
    /\ loads[l].pc = "loadingManifest"
    /\ loads' = [loads EXCEPT ![l] =
           LET me == [@ EXCEPT !.manifest = Some([isFileManifest |-> isFileManifest,
                                                  sha1 |-> sha1, chunks |-> n])]
           IN IF ~isFileManifest THEN errorStream(me, "Invalid manifest file")
              ELSE IF ~sha1MatchesFileKey(sha1, The(loads[l].fileKey))
              THEN errorStream(me, "Manifest sha1 does not match file key")
              ELSE [me EXCEPT !.pc = "done", !.returned = "own",
                              !.m = update([NoManifestLoad EXCEPT
                                               !.chunks = [c \in 1..n |-> NoChunk],
                                               !.loop = "pending"])]]
    /\ UNCHANGED <<casVars, feedVars, trash, hubVars>>

\* the stream of chunk c has finished
ChunkFinished(l, c) ==
    /\ c \in 1..Len(loads[l].m.chunks)
    /\ loads[l].m.chunks[c].ds = "loading"
    /\ loads' = [loads EXCEPT ![l].m = chunkOnFinished(@, c)]
    /\ UNCHANGED <<casVars, feedVars, trash, hubVars>>

\* the stream of chunk c has reported an error
ChunkError(l, c) ==
    /\ c \in 1..Len(loads[l].m.chunks)
    /\ loads[l].m.chunks[c].ds = "loading"
    /\ loads' = [loads EXCEPT ![l] =
           manifestLoadFailed(
               [@ EXCEPT !.m = loopCatch([@ EXCEPT !.chunks[c].ds = "error",
                                                   !.errored = TRUE])],
               "chunk")]
    /\ UNCHANGED <<casVars, feedVars, trash, hubVars>>

\* loadFile of chunk c has returned its stream: chunkDataStreams.push(ds)
ChunkStreamReturned(l, c) ==
    /\ c \in 1..Len(loads[l].m.chunks)
    /\ loads[l].m.chunks[c].ds = "calling"
    /\ loads' = [loads EXCEPT ![l].m.chunks[c].ds = "loading",
                              ![l].m.chunkDataStreams = @ \cup {c}]
    /\ UNCHANGED <<casVars, feedVars, trash, hubVars>>

\* DataStreamy: cancel() of a stream that has had no terminal event
\* reports the error "cancelled" to its onError callbacks
dataStreamCancel(me) == producerError(me, "cancelled")

\* the consumer cancels the stream of a manifest load; its onError cancels
\* the chunk streams
ParentCancel(l) ==
    /\ loads[l].m.loop # "none"
    /\ loads[l].ret = "none"
    /\ loads' = [loads EXCEPT ![l] =
           [dataStreamCancel(@) EXCEPT !.m = cancelAllChunkDataStreams(@)]]
    /\ UNCHANGED <<casVars, feedVars, trash, hubVars>>

\* loadFile of chunk c threw
ChunkThrown(l, c) ==
    /\ c \in 1..Len(loads[l].m.chunks)
    /\ loads[l].m.chunks[c].ds = "calling"
    /\ loads' = [loads EXCEPT ![l] =
           manifestLoadFailed(
               [@ EXCEPT !.m = loopCatch([@ EXCEPT !.chunks[c].ds = "thrown"])],
               "chunk")]
    /\ UNCHANGED <<casVars, feedVars, trash, hubVars>>

\* concatenateChunksAndStoreResult has returned: _concatenateChunks ends
\* the stream and so does the .then() of its caller; or it has thrown, and
\* the .catch() rejects a promise that is resolved already
ConcatDone(l, ok) ==
    /\ loads[l].m.concat = "running"
    /\ loads' = [loads EXCEPT ![l] =
           IF ok THEN producerEnd(producerEnd([@ EXCEPT !.m.concat = "ok"]))
           ELSE [@ EXCEPT !.m.concat = "failed"]]
    /\ UNCHANGED <<casVars, feedVars, trash, hubVars>>

----------------------------------------------------------------------------
Init ==
    /\ direct = << >>
    /\ links = << >>
    /\ tmps = << >>
    /\ ext = << >>
    /\ fired = << >>
    /\ procs = [p \in Procs \cup {manifestStorer(q) : q \in Procs} |-> IdleProc]
    /\ ncalls = 0
    /\ log = << >>
    /\ mem = None
    /\ calls = [c \in FeedCallers |-> IdleCall]
    /\ trash = << >>
    /\ config = NoConfig
    /\ clients = {}
    /\ subscribed = {}
    /\ published = << >>
    /\ dispatched = << >>
    /\ waiter = IdleWaiter
    /\ fetched = << >>
    /\ loads = [l \in Loads |-> IdleLoad]

(* Concurrent and repeated storeFile calls, each with data and its SHA-1 *)
NextStore ==
    \/ \E p \in Procs, d \in StoreContents : StoreFileCall(p, computeSha1OfBufferSync(d), d)
    \/ \E p \in Procs : StoreFileWritten(p)
    \/ \E p \in Procs : StoreFileReport(p)
    \/ \E p \in Procs : Return(p)

SpecStore == Init /\ [][NextStore]_vars

(* One storeFileFromStream call that installs the file: any content, any   *)
(* split into buffers, any declared size, while another process on the     *)
(* same storage directory may install the same content.                    *)
Sizes == 0..MaxLen

AllProcs == DOMAIN procs

NextStream ==
    \/ \E B \in Contents, size \in Sizes : ncalls = 0 /\ StreamCall(1, B, size, FALSE)
    \/ \E n \in 1..MaxLen : StreamData(1, n)
    \/ StreamFlush(1)
    \/ StreamFinished(1)
    \/ StreamNextStep(1)
    \/ StreamRenameFailed(1)
    \/ StreamError(1)
    \/ RenameCheckPoll(1)
    \/ RenameCheckTimeout(1)
    \/ OtherProcessInstalls(1)
    \/ \E q \in AllProcs : StoreFileWritten(q)
    \/ \E q \in AllProcs : StoreFileReport(q)

SpecStream == Init /\ [][NextStream]_vars

(* One linkLocalFile call on a file that its owner may change at any time, *)
(* in a store where the content may also be installed directly.            *)
\* longest external file
MaxExtLen == 1
\* latest modification time, in milliseconds
MaxMtime == 3

ExtContents == SeqsUpTo(Bytes, MaxExtLen)
Mtimes == 0..MaxMtime
Paths == {<<"file", "/data/a">>}

NextLink ==
    \/ \E path \in Paths, size \in 0..MaxExtLen, mtime \in Mtimes :
           ncalls = 0 /\ LinkCall(1, path, size, mtime)
    \/ \E n \in 1..MaxExtLen : StreamData(1, n)
    \/ StreamFinished(1)
    \/ StreamError(1)
    \/ OtherProcessInstalls(1)
    \/ LinkResume(1)
    \/ LinkWritten(1)
    \/ \E path \in Paths, data \in ExtContents, mtime \in Mtimes :
           ExternalFileWritten(path, data, mtime)
    \/ \E path \in Paths : ExternalFileRemoved(path)
    \/ \E path \in DOMAIN ext, json \in {"unparsable", "other"} :
           ForeignLinkFile(computeSha1OfBufferSync(ext[path].data), json)

SpecLink == Init /\ [][NextLink]_vars

(* One storeFileFromBucketUrl call: the bucket serves any content, with any *)
(* Content-Length, for any expected hash.                                   *)
\* longest content a bucket serves
MaxBucketLen == 2

BucketContents == SeqsUpTo(Bytes, MaxBucketLen)

NextBucket ==
    \/ \E B \in BucketContents, E \in BucketContents, size \in 0..MaxBucketLen :
           ncalls = 0 /\ BucketCall(1, computeSha1OfBufferSync(E), B, size)
    \/ \E n \in 1..MaxBucketLen : BucketData(1, n)
    \/ StreamFlush(1)
    \/ BucketEnd(1)
    \/ BucketRenamed(1)
    \/ BucketRenameFailed(1)
    \/ BucketError(1)
    \/ BucketSocketClose(1)
    \/ RenameCheckPoll(1)
    \/ RenameCheckTimeout(1)
    \/ OtherProcessInstalls(1)

SpecBucket == Init /\ [][NextBucket]_vars

(* initializeFromLocal on a backing log that holds anything: messages of   *)
(* the chain, messages with another number or another previousSignature,   *)
(* messages signed with another key.                                       *)
\* longest backing log found on disk
MaxLogLen == 3

ForeignSignature == Sign([messageNumber |-> 0, previousSignature |-> NoSignature], OtherKey)

lastSignature(ms) == IF ms = << >> THEN NoSignature ELSE ms[Len(ms)].signature

DiskCandidates(ms) ==
    {SignedMessage(num, prev, key) :
        num \in {n \in {Len(ms) - 1, Len(ms), Len(ms) + 1} : n >= 0},
        prev \in {NoSignature, lastSignature(ms), ForeignSignature},
        key \in {OwnerKey, OtherKey}}

NextLoad ==
    \/ \E m \in DiskCandidates(log) : Len(log) < MaxLogLen /\ DiskLogAppend(m)
    \/ InitializeLoad
    \/ InitializeVerified

SpecLoad == Init /\ [][NextLoad]_vars

(* Two writers, one addSignedMessages call each, of any batch over the     *)
(* chain's messages, on a list initialized empty or from a sound log.      *)
\* longest batch of two interleaved calls
MaxBatchLen == 2

Batches(n) == SeqsUpTo({ChainMessage(k) : k \in 0..n}, n)

NextFeed ==
    \/ Len(log) < MaxLogLen /\ DiskLogAppend(ChainMessage(Len(log)))
    \/ InitializeLoad
    \/ InitializeVerified
    \/ InitializeEmptyMessageList
    \/ \E w \in Writers, batch \in Batches(MaxBatchLen) : AddCall(w, batch)
    \/ \E w \in Writers : AddPersisted(w)
    \/ \E w \in Writers : AddPersistFailed(w)
    \/ \E w \in Writers : AddResume(w)

SpecFeed == Init /\ [][NextFeed]_vars

(* One writer that calls addSignedMessages on an initialized list, and when *)
(* the call has returned calls it again with the same batch; nothing else   *)
(* touches the list meanwhile.                                              *)
\* longest batch that is replayed
MaxReplayLen == 3

Replayer == "w1"

NextReplay ==
    \/ Len(log) < MaxLogLen /\ DiskLogAppend(ChainMessage(Len(log)))
    \/ calls[Replayer].op = "none" /\ InitializeLoad
    \/ calls[Replayer].op = "none" /\ InitializeVerified
    \/ calls[Replayer].op = "none" /\ InitializeEmptyMessageList
    \/ \E batch \in Batches(MaxReplayLen) :
           /\ mem # None
           /\ calls[Loader].pc # "loaded"
           /\ calls[Replayer].round = 0 \/
                  (calls[Replayer].round = 1 /\ batch = calls[Replayer].batch)
           /\ AddCall(Replayer, batch)
    \/ AddPersisted(Replayer)
    \/ AddPersistFailed(Replayer)
    \/ AddResume(Replayer)
    \/ calls[Replayer].round = 0 /\ AddReturn(Replayer)

SpecReplay == Init /\ [][NextReplay]_vars

(* One writer that hands addSignedMessages a single message of any make:   *)
(* of the chain or not, signed by the owner or not.                         *)
NextChain ==
    \/ Len(log) < MaxLogLen /\ calls[Replayer].op = "none"
           /\ DiskLogAppend(ChainMessage(Len(log)))
    \/ calls[Replayer].op = "none" /\ InitializeLoad
    \/ calls[Replayer].op = "none" /\ InitializeVerified
    \/ calls[Replayer].op = "none" /\ InitializeEmptyMessageList
    \/ /\ mem # None
       /\ calls[Loader].pc # "loaded"
       /\ \E m \in DiskCandidates(signedMessages) : AddCall(Replayer, <<m>>)
    \/ AddPersisted(Replayer)
    \/ AddPersistFailed(Replayer)
    \/ AddResume(Replayer)

SpecChain == Init /\ [][NextChain]_vars

(* Two installers in one process: a storeFileFromStream call, and beside   *)
(* it a storeFile or a storeFileFromBucketUrl call, each of any content    *)
(* with its right size and hash.                                            *)
Streamer == 1
Other == 2

NextInstall ==
    \/ \E B \in StoreContents :
           procs[Streamer].op = "none" /\ StreamCall(Streamer, B, Len(B), FALSE)
    \/ \E d \in StoreContents :
           procs[Other].op = "none"
               /\ StoreFileCall(Other, computeSha1OfBufferSync(d), d)
    \/ \E B \in StoreContents :
           procs[Other].op = "none"
               /\ BucketCall(Other, computeSha1OfBufferSync(B), B, Len(B))
    \/ \E n \in 1..MaxStoreLen : StreamData(Streamer, n)
    \/ \E n \in 1..MaxStoreLen : BucketData(Other, n)
    \/ \E p \in {Streamer, Other} : StreamFlush(p)
    \/ StreamFinished(Streamer)
    \/ StreamNextStep(Streamer)
    \/ \E p \in {Streamer, Other} : RenameCheckPoll(p)
    \/ StoreFileWritten(Other)
    \/ StoreFileReport(Other)
    \/ BucketEnd(Other)
    \/ BucketRenamed(Other)

SpecInstall == Init /\ [][NextInstall]_vars

quiescent == \A p \in DOMAIN procs : procs[p].pc \in {"idle", "done"}

----------------------------------------------------------------------------
(* C3: any number of storeFile calls for the same sha1 and data, issued     *)
(* one after the other or interleaved at their await points, all return     *)
(* without error, leave the file with that data at the content path of the  *)
(* sha1 (one file: a path names one file), and leave no temporary file      *)
(* once they have all returned.                                             *)
C3_StoreFileOnce ==
    /\ \A p \in Procs :
          (procs[p].op = "storeFile" /\ procs[p].pc = "done") =>
              /\ procs[p].result = "ok"
              /\ existsDirect(procs[p].sha1)
              /\ direct[procs[p].sha1].data = procs[p].data
    /\ quiescent => DOMAIN tmps = {}

\* two calls for the same sha1 have returned, and one of them found, after
\* its write, that the other had installed the file
C3_Witness ==
    \E p, q \in Procs :
        /\ p # q
        /\ procs[p].op = "storeFile" /\ procs[p].pc = "done"
        /\ procs[q].op = "storeFile" /\ procs[q].pc = "done"
        /\ procs[p].sha1 = procs[q].sha1
        /\ procs[q].raced
        /\ DOMAIN tmps = {}

----------------------------------------------------------------------------
\* a storeFileFromStream call that installs, whose source delivered all of
\* its content and then the finish event, and that has settled
settledInstall(p) ==
    /\ procs[p].op = "stream"
    /\ ~procs[p].hashOnly
    /\ procs[p].terminal = "finished"
    /\ procs[p].pc = "done"

storedAs(p) == findFile(Sha1Key(procs[p].retSha1))

----------------------------------------------------------------------------
tiles(chunks, i) ==
    /\ chunks[i].start = (IF i = 1 THEN 0 ELSE chunks[i - 1].end)
    /\ chunks[i].end - chunks[i].start <= chunkSize
    /\ i < Len(chunks) => chunks[i].end - chunks[i].start = chunkSize

(* C5: for every input length and every split into buffers, the chunk list  *)
(* of the manifest of storeFileFromStream starts at 0, is contiguous, has    *)
(* chunks of at most chunkSize bytes, all but the last of exactly chunkSize  *)
(* bytes, and ends at the total size (an empty input has no chunk).          *)
C5_ManifestChunks ==
    \A p \in Procs :
        (procs[p].op = "stream" /\ procs[p].result = "resolved") =>
            LET chunks == procs[p].md.chunks
            IN /\ \A i \in 1..Len(chunks) : tiles(chunks, i)
               /\ IF chunks = << >> THEN Len(procs[p].content) = 0
                  ELSE chunks[Len(chunks)].end = Len(procs[p].content)
               /\ procs[p].md.byte2 = Len(procs[p].content)

\* three chunks, the last one short, from an input that came in several
\* buffers
C5_Witness ==
    \E p \in Procs :
        /\ procs[p].op = "stream" /\ procs[p].result = "resolved"
        /\ Len(procs[p].md.chunks) = 3
        /\ procs[p].md.chunks[3].end - procs[p].md.chunks[3].start < chunkSize

(* C6: storeFileFromStream resolves with a non-null manifestSha1 exactly    *)
(* when the size of the input is greater than chunkSize; for sizes from 0   *)
(* to chunkSize it resolves with manifestSha1 = null.                       *)
C6_ManifestIffLarge ==
    \A p \in Procs :
        (procs[p].op = "stream" /\ procs[p].result = "resolved") =>
            ((procs[p].retManifestSha1 # Null) <=> (Len(procs[p].content) > chunkSize))

\* one call resolved with a manifest for chunkSize + 1 bytes
C6_Witness ==
    \E p \in Procs :
        /\ procs[p].op = "stream" /\ procs[p].result = "resolved"
        /\ Len(procs[p].content) = chunkSize + 1
        /\ procs[p].retManifestSha1 # Null

\* one call resolved without a manifest for exactly chunkSize bytes
C6_WitnessSingle ==
    \E p \in Procs :
        /\ procs[p].op = "stream" /\ procs[p].result = "resolved"
        /\ Len(procs[p].content) = chunkSize
        /\ procs[p].retManifestSha1 = Null

----------------------------------------------------------------------------
(* C7: for a file key that carries only chunkOf = {fileKey: {sha1: H},      *)
(* startByte: a, endByte: b}, findFile reports found = true if and only if  *)
(* findFile({sha1: H}) does, in every state of the store; when found, size  *)
(* is b - a and localFilePath is null.                                      *)
KnownHashes ==
    DOMAIN direct \cup DOMAIN links
        \cup {computeSha1OfBufferSync(d) : d \in ExtContents}

C7_ChunkOfFoundIffWhole ==
    \A H \in KnownHashes, a \in 0..chunkSize, b \in 0..chunkSize :
        LET c == findFile(ChunkOfKey(H, a, b))
            w == findFile(Sha1Key(H))
        IN /\ c.found = w.found
           /\ c.found => (c.size = b - a /\ c.localFilePath = None)

\* a content found through its link only, and one whose link names a file
\* that is gone
C7_Witness ==
    /\ \E H \in DOMAIN links :
           /\ ~existsDirect(H)
           /\ links[H].json = "link"
           /\ findFile(ChunkOfKey(H, 0, 1)).found
           /\ findFile(Sha1Key(H)).localFilePath = Some(links[H].path)
    /\ \E H \in DOMAIN links : links[H].json # "link"

----------------------------------------------------------------------------
(* C8: linkLocalFile rejects whenever the size stat observes differs from   *)
(* the declared size or the observed mtime differs from the declared mtime  *)
(* by more than 2 ms; a call rejected so writes no link file and fires no   *)
(* onFileStored; a call whose two checks pass is not rejected for a size or *)
(* an mtime mismatch.                                                       *)
rejectedByCheck(p) ==
    /\ procs[p].op = "link"
    /\ procs[p].result = "rejected"
    /\ procs[p].reason \in {"size", "mtime"}

\* what the file is when stat answers, against what the caller declared
declaredDiffers(f, a) ==
    \/ Len(f.data) # a.size
    \/ f.mtime - a.mtime > 2
    \/ a.mtime - f.mtime > 2

linkCallStep(p) ==
    /\ procs[p].pc = "idle"
    /\ procs'[p].op = "link"
    /\ procs'[p].link.path \in DOMAIN ext

C8_LinkChecks ==
    /\ [](\A p \in Procs : rejectedByCheck(p) =>
              /\ \A h \in DOMAIN links : links[h].json # "link"
              /\ linkTmp(p) \notin DOMAIN tmps
              /\ \A h \in DOMAIN fired : fired[h] = 0)
    /\ [][\A p \in Procs :
              /\ linkCallStep(p) =>
                     (declaredDiffers(ext[procs'[p].link.path], procs'[p].link)
                          <=> rejectedByCheck(p)')
              /\ (rejectedByCheck(p)' /\ ~rejectedByCheck(p)) => linkCallStep(p)]_vars

\* a call rejected for the mtime alone, the file being there with the
\* declared size
C8_Witness ==
    \E p \in Procs :
        /\ rejectedByCheck(p)
        /\ procs[p].reason = "mtime"
        /\ procs[p].link.path \in DOMAIN ext
        /\ Len(ext[procs[p].link.path].data) = procs[p].link.size

\* a call whose checks passed at a difference of exactly 2 ms, and wrote
\* its link
C8_WitnessPass ==
    \E p \in Procs, h \in DOMAIN links :
        /\ procs[p].op = "link"
        /\ procs[p].result = "resolved"
        /\ links[h].json = "link"
        /\ links[h].path = procs[p].link.path

----------------------------------------------------------------------------
(* C4: when the bytes streamed by storeFileFromBucketUrl hash to a value    *)
(* other than the expected sha1, the returned DataStream ends in error, the *)
(* temporary file is deleted, the call installs no file at any content path *)
(* and writes no link, and onFileStored is not fired.                       *)
bucketMismatch(p) ==
    /\ procs[p].op = "bucket"
    /\ computeSha1OfBufferSync(procs[p].content) # procs[p].sha1

C4_BucketHashMismatch ==
    /\ [](\A p \in Procs : (bucketMismatch(p) /\ procs[p].pc = "done") =>
              /\ procs[p].terminal = "error"
              /\ ~existsTmp(streamTmp(p))
              /\ \A h \in DOMAIN fired : fired[h] = 0)
    /\ [][\A p \in Procs : (bucketMismatch(p) /\ procs'[p] # procs[p]) =>
              /\ direct' = direct
              /\ links' = links
              /\ procs'[p].pc \notin {"renamed", "statloop", "renamefailed"}]_vars

\* the whole content was received and hashed, the end event found the
\* mismatch, and the expected content is not in the store
C4_Witness ==
    \E p \in Procs :
        /\ bucketMismatch(p)
        /\ procs[p].pc = "done"
        /\ procs[p].reason = "hash"
        /\ Len(procs[p].content) >= 2
        /\ shasumDigest(procs[p].shasum) = computeSha1OfBufferSync(procs[p].content)
        /\ ~existsDirect(procs[p].sha1)

----------------------------------------------------------------------------
(* C2: when initializeFromLocal returns successfully the in-memory list     *)
(* has, at every index i, messageNumber = i, a signature that verifies the  *)
(* body under the subfeed's public key, and the previous message's          *)
(* signature as previousSignature (none for the first message).             *)
chained(ms) ==
    \A i \in 1..Len(ms) :
        /\ ms[i].body.messageNumber = i - 1
        /\ ms[i].signature = <<OwnerKey, i - 1, ms[i].body.previousSignature>>
        /\ ms[i].body.previousSignature =
               IF i = 1 THEN NoSignature ELSE ms[i - 1].signature

C2_LoadedListIsChained ==
    [][(calls[Loader].pc = "loaded" /\ calls'[Loader].result = "ok") =>
           (mem' = Some(log) /\ chained(log))]_vars

\* a load that succeeded on a log of three messages
C2_Witness ==
    /\ calls[Loader].result = "ok"
    /\ mem # None
    /\ Len(signedMessages) >= 3
    /\ signedMessages = log

\* a load that failed on the chain alone: numbers and signatures are right
C2_WitnessRejected ==
    /\ calls[Loader].result = "rejected"
    /\ calls[Loader].reason = "previousSignature"
    /\ Len(log) >= 2
    /\ \A j \in 1..Len(log) : log[j].body.messageNumber = j - 1

----------------------------------------------------------------------------
(* C10: in every reachable state of an initialized subfeed, between the     *)
(* steps of interleaved addSignedMessages calls too and whatever the order  *)
(* of the numbers in a batch, messages[i].body.messageNumber = i for every  *)
(* i below getNumMessages().                                                *)
C10_NoGap ==
    mem # None =>
        \A i \in 0..(getNumMessages - 1) : getSignedMessage(i).body.messageNumber = i

\* both writers are between their persist and their loop, one with a batch
\* that skips a number, and the list is not empty
C10_Witness ==
    /\ mem # None
    /\ getNumMessages >= 1
    /\ \A w \in Writers : calls[w].pc = "persisted"
    /\ \E w \in Writers :
           /\ Len(calls[w].batch) = 2
           /\ calls[w].batch[2].body.messageNumber
                  # calls[w].batch[1].body.messageNumber + 1

\* a call has pushed the second message of its batch and not the first
C10_WitnessPushed ==
    \E w \in Writers :
        /\ calls[w].pc = "done"
        /\ calls[w].result = "ok"
        /\ Len(calls[w].batch) = 2
        /\ mem # None
        /\ getNumMessages >= 2
        /\ getSignedMessage(getNumMessages - 1) = calls[w].batch[2]
        /\ calls[w].batch[1].body.messageNumber < getNumMessages - 2

----------------------------------------------------------------------------
(* C9: addSignedMessages called a second time with the batch of a call      *)
(* that succeeded leaves the list as the first call left it, each message   *)
(* number being there once.                                                 *)
replayed(w) ==
    /\ calls[w].round = 1
    /\ calls[w].seenResult = "ok"
    /\ calls[w].pc = "done"

onceEach(ms) ==
    \A i, j \in 1..Len(ms) :
        ms[i].body.messageNumber = ms[j].body.messageNumber => i = j

nonDecreasing(batch) ==
    \A i \in 1..(Len(batch) - 1) :
        batch[i].body.messageNumber <= batch[i + 1].body.messageNumber

----------------------------------------------------------------------------
(* C11: in every reachable state of an initialized subfeed, after any       *)
(* sequence of successful loads and addSignedMessages calls, the first      *)
(* message of the list has no previousSignature, every other one has the    *)
(* signature of the message before it, and every signature verifies its     *)
(* body under the subfeed's public key.                                     *)
hashChained(ms) ==
    \A i \in 1..Len(ms) :
        /\ ms[i].body.previousSignature =
               IF i = 1 THEN NoSignature ELSE ms[i - 1].signature
        /\ ms[i].signature =
               <<OwnerKey, ms[i].body.messageNumber, ms[i].body.previousSignature>>

C11_AsStated == mem # None => hashChained(signedMessages)

\* a successful call has put at the end of the list the message it was given
C11_Pushed ==
    /\ calls[Replayer].op = "add"
    /\ calls[Replayer].result = "ok"
    /\ mem # None
    /\ getNumMessages >= 2
    /\ getSignedMessage(getNumMessages - 1) = calls[Replayer].batch[1]

----------------------------------------------------------------------------
(* C12: every onFileStored(sha1) notification, whatever operation fires it, *)
(* is delivered only when the file for sha1 is resolvable at its content    *)
(* path: the direct file or the link file is there when the callbacks run.  *)
resolvable(h) == existsDirect(h) \/ h \in DOMAIN links

C12_AsStated ==
    [][\A h \in DOMAIN fired' :
           fired'[h] > timesFired(h) => resolvable(h)']_vars

\* linkLocalFile has hashed the file and the notification has gone out
C12_Fired ==
    \E p \in Procs :
        /\ procs[p].op = "link"
        /\ procs[p].pc = "linkresume"
        /\ timesFired(procs[p].retSha1) = 1

----------------------------------------------------------------------------
(* C13: when several installs of the same content, by storeFile,            *)
(* storeFileFromStream or storeFileFromBucketUrl in any combination and     *)
(* interleaving within one process, have completed, there is one final file *)
(* for that sha1 and onFileStored(sha1) has been fired at most once.        *)
installed(p) ==
    \/ procs[p].op = "storeFile" /\ procs[p].pc = "done" /\ procs[p].result = "ok"
    \/ procs[p].op = "stream" /\ procs[p].pc = "done" /\ procs[p].result = "resolved"
    \/ procs[p].op = "bucket" /\ procs[p].pc = "done" /\ procs[p].terminal = "end"

C13_AsStated ==
    \A p, q \in Procs :
        (p # q /\ installed(p) /\ installed(q) /\ procs[p].sha1 = procs[q].sha1) =>
            /\ existsDirect(procs[p].sha1)
            /\ timesFired(procs[p].sha1) <= 1

\* a stream call and a storeFile call of the same content have both
\* completed
C13_BothInstalled ==
    /\ installed(Streamer)
    /\ installed(Other)
    /\ procs[Other].op = "storeFile"
    /\ procs[Streamer].sha1 = procs[Other].sha1
    /\ existsDirect(procs[Other].sha1)

----------------------------------------------------------------------------
(* C14: at the step where storeFileFromStream resolves with a manifestSha1  *)
(* that is not null, the manifest file is stored:                           *)
(* findFile({sha1: manifestSha1}) on the state the resolving step leaves    *)
(* returns found = TRUE.                                                    *)
resolvesWithManifest(p) ==
    /\ procs[p].result # "resolved"
    /\ procs'[p].result = "resolved"
    /\ procs'[p].retManifestSha1 # Null

C14_AsStated ==
    [][\A p \in Procs :
           resolvesWithManifest(p) =>
               findFile(Sha1Key(procs[p].retManifestSha1)).found']_vars

\* the call has resolved with a manifest whose storeFile is still before its
\* write
C14_Resolved ==
    \E p \in Procs :
        /\ procs[p].op = "stream"
        /\ procs[p].result = "resolved"
        /\ procs[p].retManifestSha1 # Null
        /\ procs[manifestStorer(p)].pc = "writing"

----------------------------------------------------------------------------
(* One concatenateChunksAndStoreResult call, for any expected sha1 and any *)
(* list of chunk hashes, in a store where storeFile calls install the       *)
(* chunks and possibly the whole file.                                      *)
Concatenator == 1
ChunkStorer == 2

ChunkHashes == {computeSha1OfBufferSync(d) : d \in StoreContents}
ChunkLists ==
    {<< >>} \cup {<<a>> : a \in ChunkHashes} \cup {<<a, b>> : a, b \in ChunkHashes}
Wholes == {a \o b : a, b \in StoreContents}

NextConcat ==
    \/ \E d \in Wholes : StoreFileCall(ChunkStorer, computeSha1OfBufferSync(d), d)
    \/ StoreFileWritten(ChunkStorer)
    \/ StoreFileReport(ChunkStorer)
    \/ Return(ChunkStorer)
    \/ \E W \in Wholes, cs \in ChunkLists :
           ConcatCall(Concatenator, computeSha1OfBufferSync(W), cs)
    \/ ConcatVerify(Concatenator)
    \/ ConcatRead(Concatenator)
    \/ ConcatEnd(Concatenator)
    \/ ConcatReport(Concatenator)

SpecConcat == Init /\ [][NextConcat]_vars

(* C15: when the concatenation of the chunks does not hash to the expected *)
(* sha1, concatenateChunksAndStoreResult fails with an error, installs no   *)
(* file at the content path of the expected sha1, does not fire             *)
(* onFileStored, and its temporary file is deleted.                         *)
concatEndsOnMismatch(p) ==
    /\ procs[p].op = "concat"
    /\ procs[p].pc = "ending"
    /\ shasumDigest(procs[p].shasum) # procs[p].sha1
    /\ procs'[p].pc # "ending"

C15_Fails ==
    [][\A p \in Procs :
           concatEndsOnMismatch(p) =>
               /\ procs'[p].result = "rejected"
               /\ direct' = direct
               /\ fired' = fired]_vars

C15_AsStated ==
    [][\A p \in Procs :
           concatEndsOnMismatch(p) =>
               /\ procs'[p].result = "rejected"
               /\ direct' = direct
               /\ fired' = fired
               /\ ~existsTmp(concatTmp(p))']_vars

\* the call has failed on the digest of two chunks it read
C15_Rejected ==
    \E p \in Procs :
        /\ procs[p].op = "concat"
        /\ procs[p].result = "rejected"
        /\ procs[p].reason = "hash"
        /\ Len(procs[p].data) > 1

----------------------------------------------------------------------------
(* One storeFileFromBucketUrl call on a bucket that serves the expected     *)
(* content with its true Content-Length, and a consumer that may cancel the *)
(* returned DataStream at any time before its terminal event.  The socket   *)
(* of a destroyed request does close.                                       *)
Downloader == 1

NextCancel ==
    \/ \E B \in BucketContents :
           ncalls = 0 /\ BucketCall(Downloader, computeSha1OfBufferSync(B), B, Len(B))
    \/ \E n \in 1..MaxBucketLen : BucketData(Downloader, n)
    \/ StreamFlush(Downloader)
    \/ BucketEnd(Downloader)
    \/ RenameCheckPoll(Downloader)
    \/ BucketRenamed(Downloader)
    \/ BucketCancel(Downloader)
    \/ BucketDestroyedClose(Downloader)

SpecCancel ==
    Init /\ [][NextCancel]_vars /\ WF_vars(BucketDestroyedClose(Downloader))

\* what the claim promises of a cancelled call p
cancelHonoured(p) ==
    /\ procs[p].pc \in {"destroyed", "done"}
    /\ procs[p].terminal # "end"
    /\ ~existsDirect(procs[p].sha1)
    /\ timesFired(procs[p].sha1) = 0

C16_WitnessIgnored ==
    \E p \in Procs :
        /\ procs[p].op = "bucket"
        /\ procs[p].cancelledAt = "complete"
        /\ procs[p].terminal = "end"
        /\ timesFired(procs[p].sha1) = 1

----------------------------------------------------------------------------
(* C17: a link file whose external file no longer has the size recorded in  *)
(* the link is invalid: when there is no direct file for the sha1, findFile *)
(* and hasLocalFile of {sha1} report that the file is not found.            *)
sizeChanged(h) ==
    /\ h \in DOMAIN links
    /\ links[h].json = "link"
    /\ links[h].path \in DOMAIN ext
    /\ Len(ext[links[h].path].data) # links[h].size

C17_AsStated ==
    \A h \in DOMAIN links :
        (sizeChanged(h) /\ ~existsDirect(h)) =>
            /\ ~findFile(Sha1Key(h)).found
            /\ ~hasLocalFile(Sha1Key(h))

\* linkLocalFile wrote a link, and the file it names was rewritten with
\* another length
C17_SizeChanged ==
    \E p \in Procs, h \in DOMAIN links :
        /\ procs[p].op = "link"
        /\ procs[p].result = "resolved"
        /\ procs[p].retSha1 = h
        /\ sizeChanged(h)
        /\ ~existsDirect(h)

----------------------------------------------------------------------------
(* C18: an addSignedMessages call made before the subfeed is initialized,   *)
(* or with a batch that violates the precondition (the list is empty and    *)
(* the first messageNumber is not 0, or the list is not empty and the first *)
(* messageNumber is above the last existing one plus one), fails with an    *)
(* error and leaves the in-memory list and the backing log as they were.    *)
addCalled(w) ==
    /\ calls[w].pc = "idle"
    /\ calls'[w].op = "add"
    /\ calls'[w].pc # "idle"

violatesPrecondition(batch) ==
    /\ mem # None
    /\ batch # << >>
    /\ \/ getNumMessages = 0 /\ batch[1].body.messageNumber # 0
       \/ /\ getNumMessages > 0
          /\ batch[1].body.messageNumber >
                 getSignedMessage(getNumMessages - 1).body.messageNumber + 1

C18_RejectedAddChangesNothing ==
    [][\A w \in Writers :
           (addCalled(w) /\ (mem = None \/ violatesPrecondition(calls'[w].batch))) =>
               /\ calls'[w].pc = "done"
               /\ calls'[w].result = "rejected"
               /\ mem' = mem
               /\ log' = log]_vars

\* a batch that leaves a gap after the last message of a list that is not
\* empty was refused
C18_Witness ==
    \E w \in Writers :
        /\ calls[w].result = "rejected"
        /\ calls[w].reason = "precondition"
        /\ mem # None
        /\ getNumMessages > 0
        /\ log = signedMessages

\* a call before the initialization was refused
C18_WitnessUninitialized ==
    \E w \in Writers :
        /\ calls[w].result = "rejected"
        /\ calls[w].reason = "uninitialized"
        /\ mem = None

----------------------------------------------------------------------------
(* C19: if a message of the backing log has a signature that does not       *)
(* verify, a previousSignature that is not the signature of the message     *)
(* before it, or a messageNumber that is not the one before it plus one,    *)
(* initializeFromLocal fails and the manager stays uninitialized:           *)
(* isInitialized() is false, and getNumMessages, getMessages,               *)
(* getSignedMessage and addSignedMessages all fail.                         *)
badMessage(ms, i) ==
    \/ ~verifySignature(ms[i].body, OwnerKey, ms[i].signature)
    \/ ms[i].body.previousSignature #
           (IF i = 1 THEN NoSignature ELSE ms[i - 1].signature)
    \/ ms[i].body.messageNumber #
           (IF i = 1 THEN 0 ELSE ms[i - 1].body.messageNumber + 1)

C19_BadLogStaysUninitialized ==
    [][(/\ calls[Loader].pc = "loaded"
        /\ calls'[Loader].pc = "done"
        /\ \E i \in 1..Len(log) : badMessage(log, i)) =>
           /\ calls'[Loader].result = "rejected"
           /\ ~isInitialized'
           /\ getNumMessagesThrows'
           /\ getMessagesThrows'
           /\ getSignedMessageThrows'
           /\ addSignedMessagesThrows']_vars

\* a load that failed on the number of the last of three messages alone
C19_Witness ==
    /\ calls[Loader].result = "rejected"
    /\ calls[Loader].reason = "messageNumber"
    /\ Len(log) >= 3
    /\ ~isInitialized

----------------------------------------------------------------------------
(* C20: across the addSignedMessages calls on an initialized subfeed, in    *)
(* every step that is not one of the initialization, getNumMessages() does  *)
(* not decrease and the message at an index that was present stays the      *)
(* same.                                                                    *)
isPrefix(a, b) == Len(a) <= Len(b) /\ \A i \in 1..Len(a) : b[i] = a[i]

C20_ListOnlyGrows ==
    [][(mem # None /\ calls'[Loader] = calls[Loader]) =>
           (mem' # None /\ isPrefix(The(mem), The(mem')))]_vars

\* a call that was given again the first message of a longer list has
\* returned
C20_Witness ==
    \E w \in Writers :
        /\ calls[w].op = "add"
        /\ calls[w].result = "ok"
        /\ calls[w].batch # << >>
        /\ calls[w].batch[1].body.messageNumber = 0
        /\ mem # None
        /\ getNumMessages >= 2

----------------------------------------------------------------------------
(* Two callers that store files with storeFile and move them to the trash,  *)
(* one after the other or interleaved, also for a sha1 that is not stored.  *)
NextTrash ==
    \/ \E p \in {Streamer, Other}, d \in StoreContents :
           StoreFileCall(p, computeSha1OfBufferSync(d), d)
    \/ \E p \in {Streamer, Other} : StoreFileWritten(p)
    \/ \E p \in {Streamer, Other} : StoreFileReport(p)
    \/ \E p \in {Streamer, Other} : Return(p)
    \/ \E p \in {Streamer, Other}, d \in StoreContents : TrashCall(p, computeSha1OfBufferSync(d))
    \/ \E p \in {Streamer, Other} : TrashStat(p)
    \/ \E p \in {Streamer, Other} : TrashUnlinked(p)
    \/ \E p \in {Streamer, Other} : TrashRenamed(p)

SpecTrash == Init /\ [][NextTrash]_vars

(* C23: after moveFileToTrash(sha1) on a directly stored file, the file is  *)
(* no longer at its content path and a file for the sha1 is in the trash;   *)
(* if the trash already held a file for the sha1, the source is unlinked    *)
(* and the trashed file is left as it was; if the sha1 is not stored, the   *)
(* call changes nothing.                                                    *)
trashReturns(p) ==
    /\ procs[p].op = "trash"
    /\ procs[p].pc # "done"
    /\ procs'[p].pc = "done"

C23_MoveFileToTrash ==
    [][\A p \in Procs :
           LET h == procs[p].sha1
           IN trashReturns(p) =>
               /\ procs[p].pc = "stat" =>
                      /\ ~existsDirect(h)
                      /\ procs'[p].result = "ok"
                      /\ <<direct, links, ext, trash, tmps>>' =
                             <<direct, links, ext, trash, tmps>>
               /\ procs[p].pc \in {"unlinking", "renaming"} =>
                      /\ ~existsDirect(h)'
                      /\ h \in DOMAIN trash'
               /\ procs[p].pc = "unlinking" =>
                      /\ h \in DOMAIN trash
                      /\ trash' = trash]_vars

\* a file was stored, trashed, stored again and trashed again: the second
\* call found the trash taken
C23_Witness ==
    \E p \in Procs :
        /\ procs[p].op = "trash"
        /\ procs[p].pc = "done"
        /\ procs[p].result = "ok"
        /\ procs[p].sha1 \in DOMAIN trash
        /\ ~existsDirect(procs[p].sha1)
        /\ timesFired(procs[p].sha1) = 2

\* a sha1 that is not stored was given
C23_WitnessNotStored ==
    \E p \in Procs :
        /\ procs[p].op = "trash"
        /\ procs[p].pc = "done"
        /\ procs[p].path = None
        /\ procs[p].sha1 \notin DOMAIN trash


----------------------------------------------------------------------------
(* The node and its channel: initialize(), requests going out and pubsub   *)
(* messages coming in.                                                     *)

MaxMessages == 1
MaxPublished == 2

HubChannel == "C"
HubFileKeys == {Sha1Key(<<0>>), Sha1Key(<<1>>)}

HubMemberships ==
    {[channelName |-> HubChannel, bucket |-> b, authorized |-> a, roles |-> r,
      permissions |-> q] :
        b \in BOOLEAN, a \in BOOLEAN, r \in SUBSET Ops, q \in SUBSET Ops}

\* permissions are a part of the authorization
HubConfigs == {<<cm>> : cm \in {m \in HubMemberships : m.authorized \/ m.permissions = {}}}

HubMessages ==
    {[type |-> t, fileKey |-> Sha1Key(<<0>>), status |-> "none"] :
        t \in {"requestFile", "requestSubfeed", "subfeedMessageCountUpdate"}}
    \cup {[type |-> "uploadFileStatus", fileKey |-> k, status |-> st] :
              k \in HubFileKeys, st \in {"pending", "started", "finished"}}

NextHub ==
    \/ \E cms \in HubConfigs : DoInitialize(cms)
    \/ DoInitializeFailed
    \/ \E k \in HubFileKeys : Len(published) < MaxPublished /\ RequestFileCall(k)
    \/ TimePasses(MaxElapsed)
    \/ RequestFileTimeout
    \/ Len(published) < MaxPublished /\ SubscribeToRemoteSubfeed
    \/ \E c \in clients, op \in Ops, m \in HubMessages :
           /\ Len(dispatched) < MaxMessages
           /\ IncomingPubsubMessage([channelName |-> c,
                                     pubsubChannelName |-> pubsubChannelName(c, op),
                                     message |-> m])

SpecHub == Init /\ [][NextHub]_vars

\* the membership the node has in the channel of a message
membershipOf(channelName) == The(getChannelMembership(channelName))

enabledFor(cm, op) == cm.authorized /\ op \in cm.roles /\ op \in cm.permissions

\* C24: a requestFile is published on <C>-requestFiles, and a requestSubfeed
\* on <C>-requestFeeds, only if the membership in C has the role and the
\* permission of that name.
C24_PublishNeedsRoleAndPermission ==
    \A i \in 1..Len(published) :
        /\ published[i].body.type = "requestFile" =>
               enabledFor(membershipOf(published[i].channelName), "requestFiles")
        /\ published[i].body.type = "requestSubfeed" =>
               enabledFor(membershipOf(published[i].channelName), "requestFeeds")

\* the feed half of C24
C24_RequestSubfeedNeedsRoleAndPermission ==
    \A i \in 1..Len(published) :
        published[i].body.type = "requestSubfeed" =>
            /\ published[i].pubsubChannelName
                   = pubsubChannelName(published[i].channelName, "requestFeeds")
            /\ enabledFor(membershipOf(published[i].channelName), "requestFeeds")

\* the file half of C24 as the code has it: the permission alone
C24_RequestFileNeedsPermission ==
    \A i \in 1..Len(published) :
        published[i].body.type = "requestFile" =>
            /\ published[i].pubsubChannelName
                   = pubsubChannelName(published[i].channelName, "requestFiles")
            /\ requestsFiles(membershipOf(published[i].channelName))

C24_WitnessFeeds ==
    \E i \in 1..Len(published) : published[i].body.type = "requestSubfeed"

C24_WitnessFiles ==
    \E i \in 1..Len(published) : published[i].body.type = "requestFile"

\* C25: an incoming requestFile reaches the onIncomingFileRequest callbacks
\* only if the membership in its channel has the provideFiles role and
\* permission and a bucket URI.
C25_DispatchNeedsProvideFiles ==
    \A i \in 1..Len(dispatched) :
        "incomingFileRequest" \in dispatched[i].cbs =>
            /\ dispatched[i].x.message.type = "requestFile"
            /\ enabledFor(membershipOf(dispatched[i].x.channelName), "provideFiles")
            /\ membershipOf(dispatched[i].x.channelName).bucket

C25_Witness ==
    \E i \in 1..Len(dispatched) : "incomingFileRequest" \in dispatched[i].cbs

\* a requestFile came in and was dropped for want of a bucket
C25_WitnessDropped ==
    \E i \in 1..Len(dispatched) :
        /\ dispatched[i].x.message.type = "requestFile"
        /\ dispatched[i].x.pubsubChannelName
               = pubsubChannelName(dispatched[i].x.channelName, "requestFiles")
        /\ dispatched[i].cbs = {}

\* the sub-channel a message of each type belongs on
subChannelOf(type) ==
    CASE type = "requestFile" -> "requestFiles"
      [] type = "uploadFileStatus" -> "provideFiles"
      [] type = "requestSubfeed" -> "requestFeeds"
      [] OTHER -> "provideFeeds"

wrongSubChannel(x) ==
    x.pubsubChannelName # pubsubChannelName(x.channelName, subChannelOf(x.message.type))

arrived == Len(dispatched') = Len(dispatched) + 1

\* C26: a message arriving on the wrong sub-channel for its type has no
\* effect: no callback is dispatched and the requestFile waiter keeps its
\* status.
C26_WrongSubChannelNoEffect ==
    [][arrived /\ wrongSubChannel(dispatched'[Len(dispatched')].x) =>
           /\ dispatched'[Len(dispatched')].cbs = {}
           /\ waiter' = waiter]_vars

\* the callback half of C26
C26_WrongSubChannelNoCallback ==
    [][arrived /\ wrongSubChannel(dispatched'[Len(dispatched')].x) =>
           dispatched'[Len(dispatched')].cbs = {}]_vars

C26_Witness ==
    \E i \in 1..Len(dispatched) :
        /\ wrongSubChannel(dispatched[i].x)
        /\ dispatched[i].x.message.type # "uploadFileStatus"

\* a waiter that finished on a status message from the wrong sub-channel
C26_WitnessWaiter ==
    /\ waiter.result = Some(TRUE)
    /\ \A i \in 1..Len(dispatched) :
           dispatched[i].x.message.type = "uploadFileStatus" =>
               wrongSubChannel(dispatched[i].x)

----------------------------------------------------------------------------
(* Subfeed messages read from the channel bucket.                          *)

MaxFetched == 3
MaxCount == 2

FeedIds == {<<"a", "b", "c", "d", "e", "f", "0">>, <<"a", "b", "c", "d", "e", "f", "1">>}
SubfeedHashes == {<<"0", "1", "2", "3", "4", "5", "6">>, <<"9", "1", "2", "3", "4", "5", "6">>}

PathConfigs ==
    {c \in HubConfigs : c[1].authorized /\ c[1].roles = {"requestFeeds"}
                            /\ c[1].permissions = {"requestFeeds"}}
    \cup {<< >>}

NextPath ==
    \/ \E cms \in PathConfigs : DoInitialize(cms)
    \/ DoInitializeFailed
    \/ \E f \in FeedIds, s \in SubfeedHashes, end \in 0..MaxCount :
       \E start \in 0..end, messageCount \in {None} \cup {Some(n) : n \in 0..MaxCount} :
       \E have \in start..end :
           /\ Len(fetched) < MaxFetched
           /\ DownloadSignedSubfeedMessages(HubChannel, f, s, start, end, messageCount, have)

SpecPath == Init /\ [][NextPath]_vars

\* feeds/<f0f1>/<f2f3>/<f4f5>/<feedId>/subfeeds/<s0s1>/<s2s3>/<s4s5>/<subfeedHash>
documentedSubfeedPath(f, s) ==
    << <<"feeds">>, <<f[1], f[2]>>, <<f[3], f[4]>>, <<f[5], f[6]>>, f,
       <<"subfeeds">>, <<s[1], s[2]>>, <<s[3], s[4]>>, <<s[5], s[6]>>, s >>

\* C27: the bucket path of a subfeed is
\* feeds/<f0f1>/<f2f3>/<f4f5>/<feedId>/subfeeds/<s0s1>/<s2s3>/<s4s5>/<subfeedHash>,
\* so two different (feedId, subfeedHash) pairs never have the same path.
C27_SubfeedPath ==
    /\ \A i \in 1..Len(fetched) :
           fetched[i].subfeedPath
               = documentedSubfeedPath(fetched[i].feedId, fetched[i].subfeedHash)
    /\ \A i, j \in 1..Len(fetched) :
           <<fetched[i].feedId, fetched[i].subfeedHash>>
               # <<fetched[j].feedId, fetched[j].subfeedHash>>
           => fetched[i].subfeedPath # fetched[j].subfeedPath

\* the second half of C27 alone
C27_PathsDistinct ==
    \A i, j \in 1..Len(fetched) :
        <<fetched[i].feedId, fetched[i].subfeedHash>>
            # <<fetched[j].feedId, fetched[j].subfeedHash>>
        => fetched[i].subfeedPath # fetched[j].subfeedPath

----------------------------------------------------------------------------
(* One loadFile call for a file key without a manifest, with or without a  *)
(* channel name, while another caller stores a file: the node may or may   *)
(* not have a node config, the channel may or may not have a bucket, the   *)
(* bucket may or may not hold the file, and any status message may arrive. *)

DirectConfigs ==
    {c \in HubConfigs : c[1].authorized /\ c[1].roles \subseteq {"requestFiles"}
                            /\ c[1].permissions \subseteq {"requestFiles"}}

NextDirect ==
    \/ \E cms \in DirectConfigs : DoInitialize(cms)
    \/ DoInitializeFailed
    \/ \E d \in StoreContents :
           ncalls = 0 /\ StoreFileCall(Other, computeSha1OfBufferSync(d), d)
    \/ StoreFileWritten(Other)
    \/ StoreFileReport(Other)
    \/ Return(Other)
    \/ \E d \in StoreContents, c \in {None, Some(HubChannel)} :
           LoadCall(FileLoader, Sha1Key(computeSha1OfBufferSync(d)), c)
    \/ LoadFindFile(FileLoader)
    \/ \E exists \in BOOLEAN : LoadProbed(FileLoader, exists)
    \/ LoadRequested(FileLoader)
    \/ \E B \in StoreContents : LoadOpened(FileLoader, B, Len(B))
    \/ LoadOpenFailed(FileLoader)
    \/ TimePasses(MaxElapsed)
    \/ RequestFileTimeout
    \/ \E c \in clients, m \in HubMessages :
           /\ Len(dispatched) < MaxMessages
           /\ IncomingPubsubMessage([channelName |-> c,
                                     pubsubChannelName |-> pubsubChannelName(c, "provideFiles"),
                                     message |-> m])
    \/ \E n \in 1..MaxStoreLen : BucketData(loadProc(FileLoader), n)
    \/ StreamFlush(loadProc(FileLoader))
    \/ BucketEnd(loadProc(FileLoader))
    \/ BucketRenamed(loadProc(FileLoader))

SpecDirect == Init /\ [][NextDirect]_vars

\* findFile answers the load l in this step, and it answers "found"
answersFound(l) ==
    /\ loads[l].pc = "finding"
    /\ loads'[l].pc # "finding"
    /\ findFile(The(loads[l].fileKey)).found

\* C21: when findFile reports the file found, loadFile returns a DataStream
\* that has already ended, without probing the bucket, without publishing a
\* requestFile and without writing anything to the store.
C21_FoundLocally ==
    [][\A l \in Loads : answersFound(l) =>
           /\ loads'[l].pc = "done"
           /\ loads'[l].returned = "own"
           /\ loads'[l].ret = "end"
           /\ loads'[l].probes = 0
           /\ loads'[l].requests = 0
           /\ published' = published
           /\ waiter' = waiter
           /\ UNCHANGED <<direct, links, tmps, fired, procs>>]_vars

C21_Witness ==
    \E l \in Loads :
        /\ loads[l].pc = "done"
        /\ loads[l].ret = "end"
        /\ loads[l].probes = 0
        /\ findFile(The(loads[l].fileKey)).found

\* C22: a load without a manifest and with a channel name probes the bucket
\* at most twice and requests the file at most once, the second probe only
\* after the request reported 'finished'; when no probe finds the file the
\* stream is in error 'Unable to find file'; without a channel name the
\* stream is in error and there was no probe and no request.
C22_DirectLoad ==
    \A l \in Loads :
        /\ loads[l].probes <= 2
        /\ loads[l].requests <= 1
        /\ loads[l].probes = 2 =>
               /\ loads[l].requests = 1
               /\ waiter.status = "finished"
               /\ waiter.result = Some(TRUE)
        /\ (loads[l].pc = "done" /\ loads[l].probes >= 1 /\ ~loads[l].found) =>
               /\ loads[l].returned = "own"
               /\ loads[l].ret = "error"
               /\ loads[l].reason = "Unable to find file"
        /\ (loads[l].pc \notin {"idle", "finding"} /\ loads[l].channelName = None
                /\ loads[l].ret # "end") =>
               /\ loads[l].pc = "done"
               /\ loads[l].returned = "own"
               /\ loads[l].ret = "error"
               /\ loads[l].probes = 0
               /\ loads[l].requests = 0
               /\ published = << >>

\* two probes, none found the file
C22_Witness ==
    \E l \in Loads :
        /\ loads[l].pc = "done"
        /\ loads[l].probes = 2
        /\ ~loads[l].found
        /\ loads[l].ret = "error"

\* the second probe found the file
C22_WitnessSecondProbe ==
    \E l \in Loads : loads[l].probes = 2 /\ loads[l].found /\ loads[l].returned = "bucket"

\* the request failed, so there was one probe
C22_WitnessNoSecondProbe ==
    \E l \in Loads :
        /\ loads[l].pc = "done"
        /\ loads[l].probes = 1
        /\ loads[l].requests = 1
        /\ loads[l].ret = "error"

C22_WitnessNoChannel ==
    \E l \in Loads :
        /\ loads[l].pc = "done"
        /\ loads[l].channelName = None
        /\ loads[l].ret = "error"

----------------------------------------------------------------------------
(* One loadFile call for a file key with a manifest, of a file that is not  *)
(* in the store: the manifest may be missing, malformed or for another      *)
(* file, it lists any number of chunks, every chunk load may finish, report *)
(* an error or throw, and the concatenation may succeed or fail.            *)

MaxChunks == 6

ManifestHash == computeSha1OfBufferSync(<<0, 1>>)

NextManifest ==
    \/ LoadCall(FileLoader, ManifestKey(computeSha1OfBufferSync(<< >>), ManifestHash),
                Some(HubChannel))
    \/ LoadManifestStart(FileLoader)
    \/ ManifestFailed(FileLoader)
    \/ \E isFileManifest \in BOOLEAN, d \in StoreContents, n \in 0..MaxChunks :
           ManifestLoaded(FileLoader, isFileManifest, computeSha1OfBufferSync(d), n)
    \/ \E c \in 1..MaxChunks : ChunkStreamReturned(FileLoader, c)
    \/ ParentCancel(FileLoader)
    \/ \E c \in 1..MaxChunks : ChunkFinished(FileLoader, c)
    \/ \E c \in 1..MaxChunks : ChunkError(FileLoader, c)
    \/ \E c \in 1..MaxChunks : ChunkThrown(FileLoader, c)
    \/ \E ok \in BOOLEAN : ConcatDone(FileLoader, ok)

SpecManifest == Init /\ [][NextManifest]_vars

\* the chunk loads of l that are in progress
inProgress(l) ==
    {c \in 1..Len(loads[l].m.chunks) : loads[l].m.chunks[c].ds \in {"calling", "loading"}}

\* C28: during a manifest load at most 5 chunk loads are in progress at any
\* time, and when no error occurs every chunk is loaded exactly once.
C28_BoundedFanOut ==
    \A l \in Loads :
        /\ Cardinality(inProgress(l)) <= numSimultaneous
        /\ \A c \in 1..Len(loads[l].m.chunks) : loads[l].m.chunks[c].attempts <= 1
        /\ (loads[l].m.loop = "resolved" \/ loads[l].ret = "end") =>
               \A c \in 1..Len(loads[l].m.chunks) :
                   /\ loads[l].m.chunks[c].attempts = 1
                   /\ loads[l].m.chunks[c].ds = "finished"

\* five chunks are loading and the sixth waits for one of them
C28_Witness ==
    \E l \in Loads :
        /\ Len(loads[l].m.chunks) > numSimultaneous
        /\ Cardinality(inProgress(l)) = numSimultaneous
        /\ loads[l].m.i = numSimultaneous

\* more chunks than five, all loaded
C28_WitnessAllLoaded ==
    \E l \in Loads :
        /\ Len(loads[l].m.chunks) > numSimultaneous
        /\ loads[l].m.loop = "resolved"

numRetries == 2

\* the parent stream failed in the chunk loop
chunkLoopFailed(l) == loads[l].ret = "error" /\ loads[l].reason = "chunk"

\* C29: a chunk load that ends in error is retried up to 2 times; the
\* parent load fails only after the first attempt and both retries of a
\* chunk have failed.
C29_ChunkRetries ==
    \A l \in Loads :
        chunkLoopFailed(l) =>
            \E c \in 1..Len(loads[l].m.chunks) :
                /\ loads[l].m.chunks[c].attempts = 1 + numRetries
                /\ loads[l].m.chunks[c].ds \in {"error", "thrown"}

\* what the code does: the first failure of a chunk fails the parent
C29_FirstErrorFails ==
    \A l \in Loads :
        (\E c \in 1..Len(loads[l].m.chunks) : loads[l].m.chunks[c].ds \in {"error", "thrown"})
            => loads[l].ret = "error"

C30_WitnessConcatFailed ==
    \E l \in Loads : loads[l].m.concat = "failed" /\ loads[l].ret = "none"

----------------------------------------------------------------------------
(* Cancellation and termination of a manifest load.                         *)

\* the parent stream of l has reported an error of the chunk loop or of a
\* cancel
parentFailed(l) == loads[l].ret = "error" /\ loads[l].reason \in {"chunk", "cancelled"}

\* C31: when the parent stream of a manifest load is cancelled or a chunk
\* load fails, every chunk load that was started and has not finished is
\* cancelled, exactly once, also one whose loadFile call was still pending;
\* no chunk load keeps running afterwards.
C31_CancelsEveryStartedChunk ==
    \A l \in Loads :
        /\ \A c \in 1..Len(loads[l].m.chunks) : loads[l].m.chunks[c].cancels <= 1
        /\ parentFailed(l) =>
               \A c \in inProgress(l) : loads[l].m.chunks[c].cancels = 1

\* what holds: at the moment the parent stream fails, the chunk streams
\* that loadFile has returned are cancelled, and none is cancelled twice
C31_CancelsReturnedStreams ==
    [][\A l \in Loads :
          /\ \A c \in 1..Len(loads'[l].m.chunks) : loads'[l].m.chunks[c].cancels <= 1
          /\ (~parentFailed(l) /\ parentFailed(l)') =>
                 \A c \in 1..Len(loads[l].m.chunks) :
                     loads[l].m.chunks[c].ds = "loading" =>
                         loads'[l].m.chunks[c].cancels = 1]_vars

\* a chunk whose loadFile call was pending when the parent failed, and
\* whose stream is loading now, never cancelled
C31_WitnessLeak ==
    \E l \in Loads :
        /\ parentFailed(l)
        /\ \E c \in 1..Len(loads[l].m.chunks) :
               loads[l].m.chunks[c].ds = "loading" /\ loads[l].m.chunks[c].cancels = 0

C31_WitnessCancelled ==
    \E l \in Loads :
        /\ parentFailed(l)
        /\ \E c \in 1..Len(loads[l].m.chunks) :
               loads[l].m.chunks[c].ds = "loading" /\ loads[l].m.chunks[c].cancels = 1

\* the load has nothing left to do: the loop is settled, no chunk load is
\* in progress and no concatenation is running
manifestLoadAtRest(l) ==
    /\ loads[l].m.loop \in {"resolved", "rejected"}
    /\ inProgress(l) = {}
    /\ loads[l].m.concat # "running"

\* C32: every manifest load delivers a terminal event on the parent
\* stream, also when the concatenation fails (an error) and when the
\* manifest has no chunks.  A load that has nothing left to do has
\* delivered it.
C32_TerminalEvent ==
    \A l \in Loads :
        /\ manifestLoadAtRest(l) => loads[l].ret # "none"
        /\ loads[l].m.concat = "failed" => loads[l].ret = "error"

\* what holds: a load at rest without a terminal event is one whose
\* concatenation failed or whose manifest has no chunks
C32_OnlyTheseHang ==
    \A l \in Loads :
        (manifestLoadAtRest(l) /\ loads[l].ret = "none") =>
            \/ loads[l].m.concat = "failed"
            \/ Len(loads[l].m.chunks) = 0

C32_WitnessNoChunks ==
    \E l \in Loads :
        /\ loads[l].m.loop = "resolved"
        /\ Len(loads[l].m.chunks) = 0
        /\ loads[l].ret = "none"

\* the manifest l read is not a manifest, or is the manifest of another file
badManifest(l) ==
    /\ loads[l].manifest # None
    /\ \/ ~The(loads[l].manifest).isFileManifest
       \/ Some(The(loads[l].manifest).sha1) # The(loads[l].fileKey).sha1

\* C33: when the manifest is not a valid manifest, or its sha1 differs from
\* fileKey.sha1, the returned stream ends in error, no chunk load is
\* started and concatenateChunksAndStoreResult is never called.
C33_BadManifest ==
    \A l \in Loads :
        badManifest(l) =>
            /\ loads[l].pc = "done"
            /\ loads[l].returned = "own"
            /\ loads[l].ret = "error"
            /\ loads[l].ends = 0
            /\ \/ loads[l].reason = "Invalid manifest file"
               \/ loads[l].reason = "Manifest sha1 does not match file key"
            /\ loads[l].m = NoManifestLoad

\* a manifest of several chunks for another file
C33_Witness ==
    \E l \in Loads :
        /\ badManifest(l)
        /\ The(loads[l].manifest).isFileManifest
        /\ The(loads[l].manifest).chunks >= 2
        /\ loads[l].ret = "error"

C33_WitnessInvalid ==
    \E l \in Loads :
        /\ badManifest(l)
        /\ ~The(loads[l].manifest).isFileManifest
        /\ loads[l].ret = "error"

----------------------------------------------------------------------------
(* C36: two addSignedMessages calls on the same subfeed never overlap: the  *)
(* second call checks its precondition and writes to the backing log only   *)
(* after the first has finished splicing its messages into memory.          *)
addInFlight(w) == calls[w].op = "add" /\ calls[w].pc \in {"persisting", "persisted"}

C36_AddsNeverOverlap ==
    \A w1, w2 \in Writers : (w1 # w2 /\ addInFlight(w1)) => ~addInFlight(w2)

\* one call has written its batch and not yet spliced it, while the other
\* has passed its precondition on the list as it was before
C36_WitnessOverlap ==
    /\ calls["w1"].op = "add" /\ calls["w1"].pc = "persisted"
    /\ calls["w2"].op = "add" /\ calls["w2"].pc = "persisting"
    /\ calls["w1"].batch # << >>
    /\ calls["w2"].batch # << >>

----------------------------------------------------------------------------
(* C37: after any sequence of successful addSignedMessages calls (replays,  *)
(* batches that overlap the tail, interleaved calls) the messages handed to *)
(* the backing log are the in-memory list, so a fresh initializeFromLocal   *)
(* on that log succeeds with the same messages.  Step by step: a call that  *)
(* started with the log equal to the list, alone on the subfeed, and        *)
(* succeeded, leaves them equal and the log one that loads.                 *)
addAlone(w) == \A v \in Writers \ {w} : ~addInFlight(v)

C37_LogIsTheList ==
    [][\A w \in Writers :
           (/\ calls[w].pc = "persisted"
            /\ calls'[w].pc = "done"
            /\ calls'[w].result = "ok"
            /\ addAlone(w)
            /\ log = signedMessages \o calls[w].batch) =>
               /\ log' = The(mem')
               /\ initializeCheck(log', 1, NoSignature, -1) = "ok"]_vars

\* a call that was handed again the last message of the list has returned:
\* the log holds that message twice, the list once
C37_WitnessReplay ==
    \E w \in Writers :
        /\ calls[w].op = "add"
        /\ calls[w].pc = "done"
        /\ calls[w].result = "ok"
        /\ Len(calls[w].batch) = 1
        /\ mem # None
        /\ getNumMessages >= 1
        /\ log = signedMessages \o calls[w].batch
        /\ initializeCheck(log, 1, NoSignature, -1) # "ok"

----------------------------------------------------------------------------
(* One requestFileFromChannels call while seconds pass and uploadFileStatus *)
(* messages of any key and any stage come in, in any order.  check() runs   *)
(* again each 1001 ms and time passes whatever the node does, hence the     *)
(* weak fairness of both.                                                   *)

\* most status messages that come in
MaxStatusMessages == 3

WaiterConfigs == {c \in DirectConfigs : ~c[1].bucket}

StatusMessages == {m \in HubMessages : m.type = "uploadFileStatus"}

NextWaiter ==
    \/ \E cms \in WaiterConfigs : DoInitialize(cms)
    \/ DoInitializeFailed
    \/ \E k \in HubFileKeys : RequestFileCall(k)
    \/ TimePasses(1)
    \/ RequestFileTimeout
    \/ \E c \in clients, m \in StatusMessages :
           /\ Len(dispatched) < MaxStatusMessages
           /\ IncomingPubsubMessage([channelName |-> c,
                                     pubsubChannelName |-> pubsubChannelName(c, "provideFiles"),
                                     message |-> m])

SpecWaiter ==
    Init /\ [][NextWaiter]_vars /\ WF_vars(TimePasses(1)) /\ WF_vars(RequestFileTimeout)

\* the message the pubsub client hands over in this step
incoming == dispatched'[Len(dispatched')].x.message

\* a status message for the key of the waiting request comes in
statusComesIn ==
    /\ waiter.pc = "waiting"
    /\ dispatched' # dispatched
    /\ incoming.type = "uploadFileStatus"
    /\ Some(incoming.fileKey) = waiter.fileKey

\* '' < pending < started < finished
stageBelow(a, b) ==
    <<a, b>> \in {<<"none", "pending">>, <<"none", "started">>, <<"none", "finished">>,
                  <<"pending", "started">>, <<"pending", "finished">>,
                  <<"started", "finished">>}

(* C34: the status of the requestFile waiter only moves to a strictly       *)
(* higher stage of '' < pending < started < finished; an uploadFileStatus   *)
(* message of the present stage or a lower one leaves the status and the    *)
(* deadline timer as they are, and each advance restarts the timer.         *)
C34_StageOnlyAdvances ==
    [][waiter.pc = "waiting" =>
           /\ waiter'.status # waiter.status =>
                  /\ stageBelow(waiter.status, waiter'.status)
                  /\ waiter'.elapsed = 0
           /\ (statusComesIn /\ stageBelow(waiter.status, incoming.status)) =>
                  /\ waiter'.status = incoming.status
                  /\ waiter'.elapsed = 0
           /\ (dispatched' # dispatched /\ incoming.type = "uploadFileStatus"
                   /\ ~stageBelow(waiter.status, incoming.status)) =>
                  /\ waiter'.status = waiter.status
                  /\ waiter'.elapsed = waiter.elapsed]_vars

\* a second "started" for the key came in some seconds after the first and
\* the request, in stage started, has waited on since
C34_Witness ==
    /\ waiter.pc = "waiting"
    /\ waiter.status = "started"
    /\ waiter.elapsed >= 2
    /\ Len(dispatched) >= 2
    /\ \A i \in {Len(dispatched) - 1, Len(dispatched)} :
           /\ dispatched[i].x.message.type = "uploadFileStatus"
           /\ dispatched[i].x.message.status = "started"
           /\ Some(dispatched[i].x.message.fileKey) = waiter.fileKey

\* a "pending" for the key came in after the "started"
C34_WitnessLower ==
    /\ waiter.pc = "waiting"
    /\ waiter.status = "started"
    /\ Len(dispatched) >= 2
    /\ dispatched[Len(dispatched)].x.message.status = "pending"
    /\ Some(dispatched[Len(dispatched)].x.message.fileKey) = waiter.fileKey
    /\ dispatched[Len(dispatched) - 1].x.message.status = "started"
    /\ Some(dispatched[Len(dispatched) - 1].x.message.fileKey) = waiter.fileKey

(* C35: the requestFile waiter resolves exactly once: with true as soon as  *)
(* "finished" for its file key is received before the deadline of the       *)
(* present stage, else with false, and then only when the time since the    *)
(* last advance is over 3 s in stage '' or 30 s in stage pending or         *)
(* started; once it has resolved, messages and timer checks change nothing, *)
(* and every waiting request does resolve.                                  *)
pastDeadline ==
    \/ waiter.status = "none" /\ waiter.elapsed > 3
    \/ waiter.status \in {"pending", "started"} /\ waiter.elapsed > 30

C35_WitnessTimedOut ==
    /\ waiter.pc = "done"
    /\ waiter.result = Some(FALSE)
    /\ waiter.status = "pending"
    /\ waiter.elapsed = 31
    /\ Len(dispatched) = 1

\* a message came in after the request had resolved
C35_WitnessLate ==
    /\ waiter.pc = "done"
    /\ waiter.result = Some(FALSE)
    /\ Len(dispatched) >= 1
    /\ dispatched[Len(dispatched)].x.message.status = "finished"
    /\ Some(dispatched[Len(dispatched)].x.message.fileKey) = waiter.fileKey
    /\ waiter.status = "none"

----------------------------------------------------------------------------
(* One caller links external files with linkLocalFile while another moves   *)
(* files to the trash; the owner of the external file writes it again or    *)
(* removes it whenever it likes.                                            *)
NextTrashLink ==
    \/ \E path \in Paths, size \in 0..MaxExtLen : LinkCall(Streamer, path, size, 0)
    \/ \E n \in 1..MaxExtLen : StreamData(Streamer, n)
    \/ StreamFinished(Streamer)
    \/ LinkResume(Streamer)
    \/ LinkWritten(Streamer)
    \/ \E p \in {Streamer, Other} : Return(p)
    \/ \E path \in Paths, data \in ExtContents : ExternalFileWritten(path, data, 0)
    \/ \E path \in Paths : ExternalFileRemoved(path)
    \/ \E d \in ExtContents : TrashCall(Other, computeSha1OfBufferSync(d))
    \/ TrashStat(Other)
    \/ TrashUnlinked(Other)
    \/ TrashRenamed(Other)

SpecTrashLink == Init /\ [][NextTrashLink]_vars

\* a step of a moveFileToTrash call
trashStep == \E p \in Procs : procs[p].op = "trash" /\ procs'[p] # procs[p]

(* C38: moveFileToTrash never renames or unlinks a file outside the storage *)
(* directory: for a sha1 that is present through a link file only, the      *)
(* external file the link points to stays where it is, unchanged.           *)
C38_TrashLeavesExternalFiles ==
    [][trashStep => ext' = ext]_vars

\* moveFileToTrash of a sha1 that only a link file stood for has returned:
\* the external file is gone from its place and lies in the trash
C38_WitnessMoved ==
    \E p \in Procs :
        /\ procs[p].op = "trash"
        /\ procs[p].pc = "done"
        /\ procs[p].result = "ok"
        /\ procs[p].path # None
        /\ The(procs[p].path) \in Paths
        /\ The(procs[p].path) \notin DOMAIN ext
        /\ procs[p].sha1 \in DOMAIN links
        /\ procs[p].sha1 \in DOMAIN trash
        /\ ~existsDirect(procs[p].sha1)

----------------------------------------------------------------------------
(* One storeFileFromStream call, with or without calculateHashOnly, of a    *)
(* source of the announced size that may report an error at any time before *)
(* it finishes and may go on delivering events after that.                  *)
NextStreamError ==
    \/ \E B \in Contents, hashOnly \in BOOLEAN :
           ncalls = 0 /\ StreamCall(Streamer, B, Len(B), hashOnly)
    \/ \E n \in 1..MaxLen : StreamData(Streamer, n)
    \/ StreamFlush(Streamer)
    \/ StreamFinished(Streamer)
    \/ StreamNextStep(Streamer)
    \/ StreamError(Streamer)
    \/ \E n \in 1..MaxLen : StreamLateData(Streamer, n)
    \/ StreamLateFinished(Streamer)
    \/ RenameCheckPoll(Streamer)
    \/ \E q \in AllProcs : StoreFileWritten(q)
    \/ \E q \in AllProcs : StoreFileReport(q)

SpecStreamError == Init /\ [][NextStreamError]_vars

\* the source of the call p reports its error in this step
sourceFails(p) ==
    /\ procs[p].op = "stream"
    /\ procs[p].terminal = "none"
    /\ procs'[p].terminal = "error"

\* what the call p has computed and where it stands
streamProgress(me) ==
    <<me.pc, me.result, me.reason, me.complete, me.shasum, me.md, me.wqueue, me.wloc,
      me.sha1, me.retSha1, me.retManifestSha1>>

C39_WitnessHashOnly ==
    /\ procs[Streamer].op = "stream"
    /\ procs[Streamer].hashOnly
    /\ procs[Streamer].terminal = "error"
    /\ procs[Streamer].md.byte2 = 0

----------------------------------------------------------------------------
(* The constructor has called initialize(); other callers call it too,      *)
(* before or after fetchNodeConfig has answered.                            *)
NextInitialize ==
    \/ \E c \in Callers : InitializeCall(c)
    \/ \E cms \in HubConfigs : DoInitialize(cms)
    \/ DoInitializeFailed

SpecInitialize == Init /\ [][NextInitialize]_vars

(* C40: however concurrent initialize() calls interleave, _doInitialize     *)
(* runs at most once, and every initialize() call resolves only after that  *)
(* run has completed.                                                       *)
C40_InitializeOnce ==
    /\ config.runs <= 1
    /\ \A c \in Callers :
           config.callers[c] = "returned" => (config.completed = 1 /\ config.runs = 1)
    /\ \A c \in Callers : config.callers[c] # "running"

\* two calls made while the run was in progress have resolved with it, and
\* a third made afterwards has returned at once
C40_Witness ==
    /\ config.initialized
    /\ config.callbacks = {"a", "b"}
    /\ \A c \in Callers : config.callers[c] = "returned"
    /\ config.nodeConfig # None

\* a call waits for the run in progress
C40_WitnessWaiting ==
    /\ ~config.initialized
    /\ config.callers["a"] = "waiting"
    /\ config.callers["b"] = "idle"

====
